---- MODULE Spec2Model ----
(***************************************************************************)
(* FM sound control layer of the SDK (sdk/c/examples/channel_test.c and    *)
(* sdk/c/include/smd/ym2612.h): the bus writer, the address map, the       *)
(* channel controller, the patch loaders and the global initialisation,    *)
(* together with the sound chip's view of the port stores they issue.      *)
(*                                                                         *)
(* A public operation is one action.  It yields the sequence of port       *)
(* stores and settle delays that its code performs (trace); the chip       *)
(* consumes that sequence store by store (ChipRun), which gives the        *)
(* register writes the chip saw (writes) and the new chip state (chip).    *)
(***************************************************************************)
EXTENDS Integers, Sequences, FiniteSets, TLC

VARIABLES
    pc,      \* "ready": a call is about to run; "done": the call has returned
    call,    \* the last call: function name and arguments
    trace,   \* port stores and delays performed by the last call, in order
    writes,  \* register writes <<bank, reg, val>> the chip saw in the last call
    chip,    \* the FM chip: address latches, register contents, key state
    n,       \* number of calls made so far
    phase,   \* "none": ym_init has not run; "quiet": ym_init returned and no
             \* key-on was issued since; "keyed": a key-on followed ym_init
    pos,     \* stepwise run of a call: port stores and delays completed
    delay_i, \* stepwise run of a call: the counter i of ym_delay
    life,    \* note lifecycle of each FM channel: "IDLE", "SOUNDING", "RELEASING"
    mainst,  \* the channel test's main(): position, *step and what it has played
    pong     \* the Pong program: position, game state, PSG volumes, polls

vars == <<pc, call, trace, writes, chip, n, phase, pos, delay_i, life, mainst, pong>>

----------------------------------------------------------------------------
(* Bounds of the model *)

\* largest magnitude of the algorithm and feedback arguments drawn (7 is the
\* largest valid value; negative values are drawn as well)
MaxAlgoFb == 9

\* core calls and foreign stores made in a run shared with a second agent
MaxAgentSteps == 3

\* calls made in a run that follows the note lifecycle
MaxLifeCalls == 3

\* calls made before an operation is run twice in a row
MaxPrior == 2

\* largest channel argument drawn for a single call (5 is the last channel)
MaxCh == 6
\* largest operator argument drawn for a single call (3 is the last operator)
MaxOp == 4
\* largest block argument drawn for a single call (7 is the last block)
MaxBlock == 8
\* largest fnum argument drawn for a single call (2047 is the last fnum)
MaxFnum == 2048
\* largest value argument drawn for a single call (255 is the last byte)
MaxVal == 256
\* number of calls in a run of the call-sequence specification
MaxCalls == 3

----------------------------------------------------------------------------
(* C integer operators on non-negative ints *)

RECURSIVE BitAnd(_, _)
BitAnd(a, b) ==
    IF a = 0 \/ b = 0 THEN 0
    ELSE (a % 2) * (b % 2) + 2 * BitAnd(a \div 2, b \div 2)

RECURSIVE BitOr(_, _)
BitOr(a, b) ==
    IF a = 0 THEN b
    ELSE IF b = 0 THEN a
    ELSE (IF a % 2 = 1 \/ b % 2 = 1 THEN 1 ELSE 0) + 2 * BitOr(a \div 2, b \div 2)

Shl(a, k) == a * (2 ^ k)

Shr(a, k) == a \div (2 ^ k)

\* a store through an unsigned char pointer keeps the low eight bits
Byte(v) == v % 256

----------------------------------------------------------------------------
(* Ports and registers *)

YM_ADDR_PORT0 == 10502144   \* 0xA04000
YM_DATA_PORT0 == 10502145   \* 0xA04001
YM_ADDR_PORT1 == 10502146   \* 0xA04002
YM_DATA_PORT1 == 10502147   \* 0xA04003
PSG_PORT == 12582929        \* 0xC00011
Z80_BUS_REQ == 10555648     \* 0xA11100

YM_REG_LFO == 34            \* 0x22
YM_REG_TIMER_CTRL == 39     \* 0x27
YM_REG_KEY_ONOFF == 40      \* 0x28
YM_REG_DAC_EN == 43         \* 0x2B
YM_REG_FREQ_LO == 160       \* 0xA0
YM_REG_FREQ_HI == 164       \* 0xA4
YM_REG_ALGO_FB == 176       \* 0xB0
YM_REG_STEREO_LFO == 180    \* 0xB4
YM_REG_OP_DT_MUL == 48      \* 0x30
YM_REG_OP_TL == 64          \* 0x40
YM_REG_OP_RS_AR == 80       \* 0x50
YM_REG_OP_AM_D1R == 96      \* 0x60
YM_REG_OP_D2R == 112        \* 0x70
YM_REG_OP_D1L_RR == 128     \* 0x80
YM_REG_OP_SSG_EG == 144     \* 0x90

OpBases == <<YM_REG_OP_DT_MUL, YM_REG_OP_TL, YM_REG_OP_RS_AR, YM_REG_OP_AM_D1R,
             YM_REG_OP_D2R, YM_REG_OP_D1L_RR, YM_REG_OP_SSG_EG>>

Channels == 0 .. 5

----------------------------------------------------------------------------
(* Bus writer *)

Store(port, v) == [k |-> "store", port |-> port, val |-> Byte(v)]

\* i = 0; _d: i = i + 1; if (i < 20) goto _d;   -- the value of i at exit
RECURSIVE ym_delay_loop(_)
ym_delay_loop(i) ==
    IF i + 1 < 20 THEN ym_delay_loop(i + 1) ELSE i + 1

ym_delay == <<[k |-> "delay", port |-> 0, val |-> ym_delay_loop(0)]>>

\* faulty variant: the data port stored before the address port
ym_write0_data_first(reg, val) ==
    <<Store(YM_DATA_PORT0, val)>> \o ym_delay \o <<Store(YM_ADDR_PORT0, reg)>> \o ym_delay

ym_write0(reg, val) ==
    <<Store(YM_ADDR_PORT0, reg)>> \o ym_delay \o <<Store(YM_DATA_PORT0, val)>> \o ym_delay

\* faulty variant: the data byte of a bank B write stored to the data port
\* of bank A
ym_write1_data0(reg, val) ==
    <<Store(YM_ADDR_PORT1, reg)>> \o ym_delay \o <<Store(YM_DATA_PORT0, val)>> \o ym_delay

ym_write1(reg, val) ==
    <<Store(YM_ADDR_PORT1, reg)>> \o ym_delay \o <<Store(YM_DATA_PORT1, val)>> \o ym_delay

psg_w(val) == <<Store(PSG_PORT, val)>>

psg_vol(ch, vol) ==
    psg_w(BitOr(BitOr(144, Shl(BitAnd(ch, 3), 5)), BitAnd(vol, 15)))

psg_tone(ch, div) ==
    psg_w(BitOr(BitOr(128, Shl(BitAnd(ch, 3), 5)), BitAnd(div, 15)))
    \o psg_w(BitAnd(Shr(div, 4), 63))

psg_noise(mode) == psg_w(BitOr(224, BitAnd(mode, 7)))

\* i = 0; _w: i = i + 1; if (i < limit) goto _w;  -- the value of i at exit:
\* the first count at which the test fails
wait_loop(limit) == CHOOSE i \in 1 .. limit : ~(i < limit)

----------------------------------------------------------------------------
(* Address map and channel controller *)

\* faulty variant: operators 1 and 2 not swapped (offsets 0, 4, 8, 12)
ym_op_off_linear(op) ==
    CASE op < 1 -> 0
      [] op > 0 /\ op < 2 -> 4
      [] op > 1 /\ op < 3 -> 8
      [] op > 2 -> 12

\* faulty variant: the operator number itself as offset (0, 1, 2, 3), which
\* collides with the channel index
ym_op_off_dense(op) ==
    CASE op < 1 -> 0
      [] op > 0 /\ op < 2 -> 1
      [] op > 1 /\ op < 3 -> 2
      [] op > 2 -> 3

ym_op_off(op) ==
    CASE op < 1 -> 0
      [] op > 0 /\ op < 2 -> 8
      [] op > 1 /\ op < 3 -> 4
      [] op > 2 -> 12

\* faulty variant: the bank split one channel too early
ym_op_wrong_bank(ch, op, reg, val) ==
    IF ch > 1
    THEN ym_write1(reg + (ch - 3) + ym_op_off(op), val)
    ELSE ym_write0(reg + ch + ym_op_off(op), val)

ym_op(ch, op, reg, val) ==
    IF ch > 2
    THEN ym_write1(reg + (ch - 3) + ym_op_off(op), val)
    ELSE ym_write0(reg + ch + ym_op_off(op), val)

\* faulty variant: the raw channel number instead of the bank-encoded index
ym_on_raw(ch) == ym_write0(YM_REG_KEY_ONOFF, BitOr(240, ch))

ym_on(ch) ==
    LET s == IF ch < 3 THEN BitOr(240, ch)
             ELSE BitOr(BitOr(240, ch - 3), 4)
    IN ym_write0(YM_REG_KEY_ONOFF, s)

\* faulty variant: the raw channel number instead of the bank-encoded index
ym_off_raw(ch) == ym_write0(YM_REG_KEY_ONOFF, ch)

\* faulty variant: the key-off of an upper channel sent to bank B
ym_off_bank_b(ch) ==
    IF ch > 2
    THEN ym_write1(YM_REG_KEY_ONOFF, BitOr(ch - 3, 4))
    ELSE ym_write0(YM_REG_KEY_ONOFF, ch)

ym_off(ch) ==
    LET s == IF ch < 3 THEN ch ELSE BitOr(ch - 3, 4)
    IN ym_write0(YM_REG_KEY_ONOFF, s)

\* faulty variant: block shifted by four bits instead of three
ym_freq_fh_shift(ch, block, fnum) ==
    LET r  == IF ch > 2 THEN ch - 3 ELSE ch
        fh == BitOr(Shl(BitAnd(block, 7), 4), BitAnd(Shr(fnum, 8), 7))
    IN IF ch < 3
       THEN ym_write0(YM_REG_FREQ_HI + r, fh) \o ym_write0(YM_REG_FREQ_LO + r, BitAnd(fnum, 255))
       ELSE ym_write1(YM_REG_FREQ_HI + r, fh) \o ym_write1(YM_REG_FREQ_LO + r, BitAnd(fnum, 255))

\* faulty variant: FREQ_LO written before FREQ_HI
ym_freq_lo_first(ch, block, fnum) ==
    LET r  == IF ch > 2 THEN ch - 3 ELSE ch
        fh == BitOr(Shl(BitAnd(block, 7), 3), BitAnd(Shr(fnum, 8), 7))
    IN IF ch < 3
       THEN ym_write0(YM_REG_FREQ_LO + r, BitAnd(fnum, 255)) \o ym_write0(YM_REG_FREQ_HI + r, fh)
       ELSE ym_write1(YM_REG_FREQ_LO + r, BitAnd(fnum, 255)) \o ym_write1(YM_REG_FREQ_HI + r, fh)

ym_freq(ch, block, fnum) ==
    LET r  == IF ch > 2 THEN ch - 3 ELSE ch
        fh == BitOr(Shl(BitAnd(block, 7), 3), BitAnd(Shr(fnum, 8), 7))
    IN IF ch < 3
       THEN ym_write0(YM_REG_FREQ_HI + r, fh) \o ym_write0(YM_REG_FREQ_LO + r, BitAnd(fnum, 255))
       ELSE ym_write1(YM_REG_FREQ_HI + r, fh) \o ym_write1(YM_REG_FREQ_LO + r, BitAnd(fnum, 255))

----------------------------------------------------------------------------
(* Patch loaders *)

\* faulty variant: the patch load ends with a key-on
ym_patch_test_keyed(ch) ==
    LET p == IF ch > 2 THEN 1 ELSE 0
        r == IF ch > 2 THEN ch - 3 ELSE ch
    IN (IF p < 1 THEN ym_write0(YM_REG_ALGO_FB + r, 0) ELSE ym_write1(YM_REG_ALGO_FB + r, 0))
       \o (IF p < 1 THEN ym_write0(YM_REG_STEREO_LFO + r, 192)
                    ELSE ym_write1(YM_REG_STEREO_LFO + r, 192))
       \o ym_op(ch, 0, 64, 127)
       \o ym_op(ch, 1, 64, 127)
       \o ym_op(ch, 2, 64, 127)
       \o ym_op(ch, 3, 48, 1)
       \o ym_op(ch, 3, 64, 16)
       \o ym_op(ch, 3, 80, 31)
       \o ym_op(ch, 3, 96, 0)
       \o ym_op(ch, 3, 112, 0)
       \o ym_op(ch, 3, 128, 15)
       \o ym_on(ch)

\* faulty variant: the operator writes moved before the channel-level writes
ym_patch_test_ops_first(ch) ==
    LET p == IF ch > 2 THEN 1 ELSE 0
        r == IF ch > 2 THEN ch - 3 ELSE ch
    IN ym_op(ch, 0, 64, 127)
       \o ym_op(ch, 1, 64, 127)
       \o ym_op(ch, 2, 64, 127)
       \o ym_op(ch, 3, 48, 1)
       \o ym_op(ch, 3, 64, 16)
       \o ym_op(ch, 3, 80, 31)
       \o ym_op(ch, 3, 96, 0)
       \o ym_op(ch, 3, 112, 0)
       \o ym_op(ch, 3, 128, 15)
       \o (IF p < 1 THEN ym_write0(YM_REG_ALGO_FB + r, 0) ELSE ym_write1(YM_REG_ALGO_FB + r, 0))
       \o (IF p < 1 THEN ym_write0(YM_REG_STEREO_LFO + r, 192)
                    ELSE ym_write1(YM_REG_STEREO_LFO + r, 192))

\* faulty variant: the panning byte enables the left output only (0x80)
ym_patch_test_pan_left(ch) ==
    LET p == IF ch > 2 THEN 1 ELSE 0
        r == IF ch > 2 THEN ch - 3 ELSE ch
    IN (IF p < 1 THEN ym_write0(YM_REG_ALGO_FB + r, 0) ELSE ym_write1(YM_REG_ALGO_FB + r, 0))
       \o (IF p < 1 THEN ym_write0(YM_REG_STEREO_LFO + r, 128)
                    ELSE ym_write1(YM_REG_STEREO_LFO + r, 128))
       \o ym_op(ch, 0, 64, 127)
       \o ym_op(ch, 1, 64, 127)
       \o ym_op(ch, 2, 64, 127)
       \o ym_op(ch, 3, 48, 1)
       \o ym_op(ch, 3, 64, 16)
       \o ym_op(ch, 3, 80, 31)
       \o ym_op(ch, 3, 96, 0)
       \o ym_op(ch, 3, 112, 0)
       \o ym_op(ch, 3, 128, 15)

\* the fixed test patch: algorithm 0, feedback 0, stereo L+R, operators
\* 0..2 silenced, operator 3 the only carrier
ym_patch_test(ch) ==
    LET p == IF ch > 2 THEN 1 ELSE 0
        r == IF ch > 2 THEN ch - 3 ELSE ch
    IN (IF p < 1 THEN ym_write0(YM_REG_ALGO_FB + r, 0) ELSE ym_write1(YM_REG_ALGO_FB + r, 0))
       \o (IF p < 1 THEN ym_write0(YM_REG_STEREO_LFO + r, 192)
                    ELSE ym_write1(YM_REG_STEREO_LFO + r, 192))
       \o ym_op(ch, 0, 64, 127)
       \o ym_op(ch, 1, 64, 127)
       \o ym_op(ch, 2, 64, 127)
       \o ym_op(ch, 3, 48, 1)
       \o ym_op(ch, 3, 64, 16)
       \o ym_op(ch, 3, 80, 31)
       \o ym_op(ch, 3, 96, 0)
       \o ym_op(ch, 3, 112, 0)
       \o ym_op(ch, 3, 128, 15)

\* struct YM_Patch values used as inputs: the fields of operator o are
\* 16*o + 1 .. 16*o + 7 so that every byte of a patch is recognisable
PatchTable ==
    << [algo_fb |-> 61, pan_ams_pms |-> 192,
        op |-> [o \in 0 .. 3 |-> [g \in 1 .. 7 |-> 16 * o + g]]],
       [algo_fb |-> 7, pan_ams_pms |-> 128,
        op |-> [o \in 0 .. 3 |-> [g \in 1 .. 7 |-> 255 - (16 * o + g)]]] >>

\* a channel register of ch: base + (ch mod 3) on the bank of ch
ym_write_ch(ch, reg, val) ==
    IF ch < 3 THEN ym_write0(reg + ch, val) ELSE ym_write1(reg + (ch - 3), val)

\* the seven registers of one operator, in group order
ym_load_operator(ch, op, oper) ==
    ym_op(ch, op, OpBases[1], oper[1]) \o ym_op(ch, op, OpBases[2], oper[2])
    \o ym_op(ch, op, OpBases[3], oper[3]) \o ym_op(ch, op, OpBases[4], oper[4])
    \o ym_op(ch, op, OpBases[5], oper[5]) \o ym_op(ch, op, OpBases[6], oper[6])
    \o ym_op(ch, op, OpBases[7], oper[7])

\* operators 0..3, then ALGO_FB, then STEREO_LFO
ym_load_patch(ch, patch) ==
    ym_load_operator(ch, 0, patch.op[0]) \o ym_load_operator(ch, 1, patch.op[1])
    \o ym_load_operator(ch, 2, patch.op[2]) \o ym_load_operator(ch, 3, patch.op[3])
    \o ym_write_ch(ch, YM_REG_ALGO_FB, patch.algo_fb)
    \o ym_write_ch(ch, YM_REG_STEREO_LFO, patch.pan_ams_pms)

\* faulty variant: the feedback not masked to three bits
YM_ALGO_FB_nomask(algo, fb) == BitOr(Shl(fb, 3), BitAnd(algo, 7))

\* #define YM_ALGO_FB(algo, fb) ((((fb) & 0x07) << 3) | ((algo) & 0x07))
YM_ALGO_FB(algo, fb) == BitOr(Shl(BitAnd(fb, 7), 3), BitAnd(algo, 7))

\* the ALGO_FB register of ch receives the composed byte
ym_set_algo(ch, algo, feedback) ==
    ym_write_ch(ch, YM_REG_ALGO_FB, YM_ALGO_FB(algo, feedback))

----------------------------------------------------------------------------
(* Global controller *)

\* faulty variant: channel 5 is not keyed off
all_off_skips_ch5 ==
    ym_off(0) \o ym_off(1) \o ym_off(2) \o ym_off(3) \o ym_off(4)
    \o psg_vol(0, 15) \o psg_vol(1, 15) \o psg_vol(2, 15) \o psg_vol(3, 15)

all_off ==
    ym_off(0) \o ym_off(1) \o ym_off(2) \o ym_off(3) \o ym_off(4) \o ym_off(5)
    \o psg_vol(0, 15) \o psg_vol(1, 15) \o psg_vol(2, 15) \o psg_vol(3, 15)

\* faulty variant: the test patch is not loaded on channel 5
ym_init_five_patches ==
    ym_write0(34, 0) \o ym_write0(39, 0) \o ym_write0(43, 0)
    \o ym_write0(40, 0) \o ym_write0(40, 1) \o ym_write0(40, 2)
    \o ym_write0(40, 4) \o ym_write0(40, 5) \o ym_write0(40, 6)
    \o ym_patch_test(0) \o ym_patch_test(1) \o ym_patch_test(2)
    \o ym_patch_test(3) \o ym_patch_test(4)
    \o psg_vol(0, 15) \o psg_vol(1, 15) \o psg_vol(2, 15) \o psg_vol(3, 15)

\* faulty variant: the first two global writes exchanged
ym_init_timer_first ==
    ym_write0(39, 0) \o ym_write0(34, 0) \o ym_write0(43, 0)
    \o ym_write0(40, 0) \o ym_write0(40, 1) \o ym_write0(40, 2)
    \o ym_write0(40, 4) \o ym_write0(40, 5) \o ym_write0(40, 6)
    \o ym_patch_test(0) \o ym_patch_test(1) \o ym_patch_test(2)
    \o ym_patch_test(3) \o ym_patch_test(4) \o ym_patch_test(5)
    \o psg_vol(0, 15) \o psg_vol(1, 15) \o psg_vol(2, 15) \o psg_vol(3, 15)

\* faulty variant: the key-off of channel 3 written with the raw channel number
ym_init_skips_ch3 ==
    ym_write0(34, 0) \o ym_write0(39, 0) \o ym_write0(43, 0)
    \o ym_write0(40, 0) \o ym_write0(40, 1) \o ym_write0(40, 2)
    \o ym_write0(40, 3) \o ym_write0(40, 5) \o ym_write0(40, 6)
    \o ym_patch_test(0) \o ym_patch_test(1) \o ym_patch_test(2)
    \o ym_patch_test(3) \o ym_patch_test(4) \o ym_patch_test(5)
    \o psg_vol(0, 15) \o psg_vol(1, 15) \o psg_vol(2, 15) \o psg_vol(3, 15)

ym_init ==
    ym_write0(34, 0) \o ym_write0(39, 0) \o ym_write0(43, 0)
    \o ym_write0(40, 0) \o ym_write0(40, 1) \o ym_write0(40, 2)
    \o ym_write0(40, 4) \o ym_write0(40, 5) \o ym_write0(40, 6)
    \o ym_patch_test(0) \o ym_patch_test(1) \o ym_patch_test(2)
    \o ym_patch_test(3) \o ym_patch_test(4) \o ym_patch_test(5)
    \o psg_vol(0, 15) \o psg_vol(1, 15) \o psg_vol(2, 15) \o psg_vol(3, 15)

----------------------------------------------------------------------------
(* The FM chip's side of the bus *)

\* after reset no address is latched (-1), no register has been written and
\* every channel is keyed off
PowerOn ==
    [lat |-> <<-1, -1>>,
     reg |-> [x \in {} |-> 0],
     key |-> [c \in Channels |-> 0]]

\* the channel a key on/off byte names: codes 0,1,2 are channels 0..2, codes
\* 4,5,6 are channels 3..5, codes 3 and 7 name no channel (-1)
KeyChannel(v) ==
    LET code == v % 8
    IN IF code < 3 THEN code ELSE IF code > 3 /\ code < 7 THEN code - 1 ELSE -1

\* a data store of v on bank b (1 = A, 2 = B) lands in the latched register;
\* register 0x28 of bank A gates the operators of the channel it names
ChipData(c, b, v) ==
    LET r == c.lat[b]
        k == KeyChannel(v)
    IN [c EXCEPT
          !.reg = (<<b - 1, r>> :> v) @@ c.reg,
          !.key = IF b = 1 /\ r = YM_REG_KEY_ONOFF /\ k \in Channels
                  THEN [c.key EXCEPT ![k] = v \div 16]
                  ELSE c.key]

\* one element of a trace arriving at the chip
ChipStep(c, e) ==
    CASE e.k = "delay" -> c
      [] e.k = "store" /\ e.port = YM_ADDR_PORT0 -> [c EXCEPT !.lat[1] = e.val]
      [] e.k = "store" /\ e.port = YM_ADDR_PORT1 -> [c EXCEPT !.lat[2] = e.val]
      [] e.k = "store" /\ e.port = YM_DATA_PORT0 -> ChipData(c, 1, e.val)
      [] e.k = "store" /\ e.port = YM_DATA_PORT1 -> ChipData(c, 2, e.val)
      [] OTHER -> c

\* the register write a trace element completes, if any
WriteOf(c, e) ==
    CASE e.k = "store" /\ e.port = YM_DATA_PORT0 ->
             <<[bank |-> 0, reg |-> c.lat[1], val |-> e.val]>>
      [] e.k = "store" /\ e.port = YM_DATA_PORT1 ->
             <<[bank |-> 1, reg |-> c.lat[2], val |-> e.val]>>
      [] OTHER -> <<>>

\* one trace element arrives: the chip state changes and a completed
\* register write is appended to the log
ChipNext(st, e) ==
    [chip |-> ChipStep(st.chip, e), log |-> st.log \o WriteOf(st.chip, e)]

\* the chip consumes tr[lo..hi] in order, element by element, from st (the
\* first half is evaluated to a value before the second half starts from it)
RECURSIVE ChipRun(_, _, _, _)
ChipRun(st, tr, lo, hi) ==
    IF lo > hi THEN st
    ELSE IF lo = hi THEN ChipNext(st, tr[lo])
    ELSE CHOOSE r \in { ChipRun(l, tr, (lo + hi) \div 2 + 1, hi) :
                             l \in {ChipRun(st, tr, lo, (lo + hi) \div 2)} } : TRUE

\* no channel has a note: the lifecycle state of the chip after reset
IdleAll == [c \in Channels |-> "IDLE"]

\* the channel test's main() is not running
NoMain == [pc |-> "off"]

\* the Pong program is not running
NoPong == [pc |-> "off"]

----------------------------------------------------------------------------
(* Calls *)

Call(fn, ch, op, reg, val, block, fnum, patch) ==
    [fn |-> fn, ch |-> ch, op |-> op, reg |-> reg, val |-> val,
     block |-> block, fnum |-> fnum, patch |-> patch]

NoCall == Call("none", 0, 0, 0, 0, 0, 0, 0)

\* the port stores and delays a call performs (ym_set_algo takes its
\* algorithm in the field op and its feedback in the field val)
Body(c) ==
    CASE c.fn = "ym_freq" -> ym_freq(c.ch, c.block, c.fnum)
      [] c.fn = "ym_on" -> ym_on(c.ch)
      [] c.fn = "ym_off" -> ym_off(c.ch)
      [] c.fn = "ym_op" -> ym_op(c.ch, c.op, c.reg, c.val)
      [] c.fn = "ym_patch_test" -> ym_patch_test(c.ch)
      [] c.fn = "ym_load_patch" -> ym_load_patch(c.ch, PatchTable[c.patch])
      [] c.fn = "ym_set_algo" -> ym_set_algo(c.ch, c.op, c.val)
      [] c.fn = "psg_vol" -> psg_vol(c.ch, c.val)
      [] c.fn = "psg_tone" -> psg_tone(c.ch, c.val)
      [] c.fn = "psg_noise" -> psg_noise(c.val)
      [] c.fn = "ym_init" -> ym_init
      [] c.fn = "all_off" -> all_off
      [] OTHER -> <<>>

NextPhase(c) ==
    IF c.fn = "ym_init" THEN "quiet"
    ELSE IF c.fn = "ym_on" /\ phase = "quiet" THEN "keyed"
    ELSE phase

\* call c runs to completion on the single thread of control: tr is what it
\* stores to the ports, res what the chip makes of it
DoChip(c) ==
    \E tr \in {Body(c)} :
        \E res \in {ChipRun([chip |-> chip, log |-> <<>>], tr, 1, Len(tr))} :
            /\ call' = c
            /\ trace' = tr
            /\ writes' = res.log
            /\ chip' = res.chip
            /\ n' = n + 1
            /\ pc' = "done"
            /\ phase' = NextPhase(c)
            /\ UNCHANGED <<pos, delay_i>>

\* the same, where the lifecycle and the two programs are not followed
Do(c) == DoChip(c) /\ UNCHANGED <<life, mainst, pong>>

----------------------------------------------------------------------------
(* Specification of a run: any sequence of calls of the public operations,  *)
(* with in-range arguments, from the chip's reset state                     *)

\* the frequencies the channel test plays, one per channel
SeqFreqArgs ==
    { <<0, 4, 644>>, <<1, 4, 723>>, <<2, 4, 811>>,
      <<3, 4, 859>>, <<4, 4, 964>>, <<5, 4, 1081>> }

\* operator writes <<ch, op, base, val>> covering both banks and all operators
SeqOpArgs ==
    { <<0, 0, 48, 1>>, <<2, 1, 64, 16>>, <<3, 2, 64, 16>>, <<5, 3, 144, 8>> }

\* the channels a full patch record is loaded on: either side of the bank
\* boundary
SeqPatchCh == {2, 3}

Init ==
    /\ pc = "ready"
    /\ call = NoCall
    /\ trace = <<>>
    /\ writes = <<>>
    /\ chip = PowerOn
    /\ n = 0
    /\ phase = "none"
    /\ pos = 0
    /\ delay_i = 0
    /\ life = IdleAll
    /\ mainst = NoMain
    /\ pong = NoPong

Do_ym_init == n < MaxCalls /\ Do(Call("ym_init", 0, 0, 0, 0, 0, 0, 0))

Do_ym_on == n < MaxCalls /\ \E ch \in Channels : Do(Call("ym_on", ch, 0, 0, 0, 0, 0, 0))

Do_ym_off == n < MaxCalls /\ \E ch \in Channels : Do(Call("ym_off", ch, 0, 0, 0, 0, 0, 0))

Do_ym_freq ==
    n < MaxCalls /\ \E a \in SeqFreqArgs : Do(Call("ym_freq", a[1], 0, 0, 0, a[2], a[3], 0))

Do_ym_op ==
    n < MaxCalls /\ \E a \in SeqOpArgs : Do(Call("ym_op", a[1], a[2], a[3], a[4], 0, 0, 0))

Do_ym_patch_test ==
    n < MaxCalls /\ \E ch \in Channels : Do(Call("ym_patch_test", ch, 0, 0, 0, 0, 0, 0))

Do_ym_load_patch ==
    n < MaxCalls /\ \E ch \in SeqPatchCh : Do(Call("ym_load_patch", ch, 0, 0, 0, 0, 0, 1))

Next ==
    \/ Do_ym_init
    \/ Do_ym_on
    \/ Do_ym_off
    \/ Do_ym_freq
    \/ Do_ym_op
    \/ Do_ym_patch_test
    \/ Do_ym_load_patch

Spec == Init /\ [][Next]_vars

----------------------------------------------------------------------------
(* Specification of a single call: the arguments are drawn in the initial   *)
(* state, over the whole argument ranges and one value beyond each, and the *)
(* call then runs once                                                      *)

\* the calls drawn; c stands for the variable call in the initial state
CallArgs(c) ==
    \/ \E ch \in 0 .. MaxCh, b \in 0 .. MaxBlock, f \in 0 .. MaxFnum :
           c = Call("ym_freq", ch, 0, 0, 0, b, f, 0)
    \/ \E ch \in 0 .. MaxCh, o \in 0 .. MaxOp, g \in 1 .. 7, v \in 0 .. MaxVal :
           c = Call("ym_op", ch, o, OpBases[g], v, 0, 0, 0)
    \/ \E ch \in 0 .. MaxCh : c = Call("ym_on", ch, 0, 0, 0, 0, 0, 0)
    \/ \E ch \in 0 .. MaxCh : c = Call("ym_off", ch, 0, 0, 0, 0, 0, 0)
    \/ \E ch \in 0 .. MaxCh : c = Call("ym_patch_test", ch, 0, 0, 0, 0, 0, 0)
    \/ \E ch \in 0 .. MaxCh, p \in 1 .. Len(PatchTable) :
           c = Call("ym_load_patch", ch, 0, 0, 0, 0, 0, p)
    \/ \E ch \in 0 .. MaxCh, a \in -MaxAlgoFb .. MaxAlgoFb, f \in -MaxAlgoFb .. MaxAlgoFb :
           c = Call("ym_set_algo", ch, a, 0, f, 0, 0, 0)
    \/ c = Call("ym_init", 0, 0, 0, 0, 0, 0, 0)
    \/ c = Call("all_off", 0, 0, 0, 0, 0, 0, 0)

InitCall ==
    /\ pc = "ready"
    /\ CallArgs(call)
    /\ trace = <<>>
    /\ writes = <<>>
    /\ chip = PowerOn
    /\ n = 0
    /\ phase = "none"
    /\ pos = 0
    /\ delay_i = 0
    /\ life = IdleAll
    /\ mainst = NoMain
    /\ pong = NoPong

Run == pc = "ready" /\ Do(call)

NextCall == Run

CallSpec == InitCall /\ [][NextCall]_vars

----------------------------------------------------------------------------
(* Specification of a call run step by step: every port store is a step    *)
(* and so is every statement of the settle delay; the processor keeps      *)
(* executing, hence the weak fairness                                      *)

\* the calls run step by step: the public operations with in-range arguments
StepArgs(c) ==
    \/ \E ch \in Channels : c = Call("ym_on", ch, 0, 0, 0, 0, 0, 0)
    \/ \E ch \in Channels : c = Call("ym_off", ch, 0, 0, 0, 0, 0, 0)
    \/ \E a \in SeqFreqArgs : c = Call("ym_freq", a[1], 0, 0, 0, a[2], a[3], 0)
    \/ \E a \in SeqOpArgs : c = Call("ym_op", a[1], a[2], a[3], a[4], 0, 0, 0)
    \/ \E ch \in Channels : c = Call("ym_patch_test", ch, 0, 0, 0, 0, 0, 0)
    \/ \E ch \in SeqPatchCh : c = Call("ym_load_patch", ch, 0, 0, 0, 0, 0, 1)
    \/ c = Call("ym_init", 0, 0, 0, 0, 0, 0, 0)
    \/ c = Call("all_off", 0, 0, 0, 0, 0, 0, 0)

InitStep ==
    /\ pc = "run"
    /\ StepArgs(call)
    /\ trace = <<>>
    /\ writes = <<>>
    /\ chip = PowerOn
    /\ n = 0
    /\ phase = "none"
    /\ pos = 0
    /\ delay_i = 0
    /\ life = IdleAll
    /\ mainst = NoMain
    /\ pong = NoPong

\* faulty variant: the counter is not advanced
ym_delay_stuck(i) == i

\* i = i + 1;
ym_delay_inc(i) == i + 1

\* *port = val;  -- the next step of the call is a store: the chip takes it
Step_store ==
    /\ pc = "run"
    /\ pos < Len(Body(call))
    /\ \E e \in {Body(call)[pos + 1]} :
           /\ e.k = "store"
           /\ trace' = Append(trace, e)
           /\ writes' = writes \o WriteOf(chip, e)
           /\ chip' = ChipStep(chip, e)
    /\ pos' = pos + 1
    /\ UNCHANGED <<pc, call, n, phase, delay_i, life, mainst, pong>>

\* ym_delay(): i = 0;
Delay_enter ==
    /\ pc = "run"
    /\ pos < Len(Body(call))
    /\ Body(call)[pos + 1].k = "delay"
    /\ delay_i' = 0
    /\ pc' = "_d"
    /\ UNCHANGED <<call, trace, writes, chip, n, phase, pos, life, mainst, pong>>

\* _d: i = i + 1;
Delay_inc ==
    /\ pc = "_d"
    /\ delay_i' = ym_delay_inc(delay_i)
    /\ pc' = "test"
    /\ UNCHANGED <<call, trace, writes, chip, n, phase, pos, life, mainst, pong>>

\* if (i < 20) goto _d;  -- otherwise ym_delay returns to the bank write
Delay_test ==
    /\ pc = "test"
    /\ IF delay_i < 20
       THEN /\ pc' = "_d"
            /\ UNCHANGED <<trace, pos>>
       ELSE /\ pc' = "run"
            /\ trace' = Append(trace, [k |-> "delay", port |-> 0, val |-> delay_i])
            /\ pos' = pos + 1
    /\ UNCHANGED <<call, writes, chip, n, phase, delay_i, life, mainst, pong>>

\* the call has performed its last step and returns
Step_return ==
    /\ pc = "run"
    /\ pos = Len(Body(call))
    /\ pc' = "done"
    /\ n' = n + 1
    /\ UNCHANGED <<call, trace, writes, chip, phase, pos, delay_i, life, mainst, pong>>

NextStep ==
    \/ Step_store
    \/ Delay_enter
    \/ Delay_inc
    \/ Delay_test
    \/ Step_return

StepSpec == InitStep /\ [][NextStep]_vars /\ WF_vars(NextStep)

----------------------------------------------------------------------------
(* Specification of an operation run twice in a row: some calls of the     *)
(* public operations bring the chip from reset into a prior state, then    *)
(* ym_init or ym_off runs, and then the same call runs again               *)

Idem_prior == n < MaxPrior /\ Next

Idem_ym_init == n = MaxPrior /\ Do(Call("ym_init", 0, 0, 0, 0, 0, 0, 0))

Idem_ym_off == n = MaxPrior /\ \E ch \in Channels : Do(Call("ym_off", ch, 0, 0, 0, 0, 0, 0))

Idem_again == n = MaxPrior + 1 /\ Do(call)

NextIdem ==
    \/ Idem_prior
    \/ Idem_ym_init
    \/ Idem_ym_off
    \/ Idem_again

IdemSpec == Init /\ [][NextIdem]_vars

----------------------------------------------------------------------------
(* Specification of the note lifecycle: calls of the public operations     *)
(* from reset, the chip following each channel's envelope gate             *)
(*   IDLE --key on--> SOUNDING --key off--> RELEASING --envelope ends--> IDLE *)

\* one register write arrives: a write to 0x28 of bank A opens the gate of
\* the channel it names when its slot mask is not zero, and closes it when
\* the mask is zero
LifeWrite(l, w) ==
    IF w.bank = 0 /\ w.reg = YM_REG_KEY_ONOFF /\ KeyChannel(w.val) \in Channels
    THEN [l EXCEPT ![KeyChannel(w.val)] =
              IF w.val \div 16 # 0 THEN "SOUNDING"
              ELSE IF @ = "SOUNDING" THEN "RELEASING" ELSE @]
    ELSE l

\* the register writes ws[lo..hi] arrive in order (the first half is
\* evaluated to a value before the second half starts from it)
RECURSIVE LifeRun(_, _, _, _)
LifeRun(l, ws, lo, hi) ==
    IF lo > hi THEN l
    ELSE IF lo = hi THEN LifeWrite(l, ws[lo])
    ELSE CHOOSE r \in { LifeRun(m, ws, (lo + hi) \div 2 + 1, hi) :
                             m \in {LifeRun(l, ws, lo, (lo + hi) \div 2)} } : TRUE

\* call c runs and the chip follows the gates it writes
DoLife(c) ==
    /\ n < MaxLifeCalls
    /\ DoChip(c)
    /\ life' = LifeRun(life, writes', 1, Len(writes'))
    /\ UNCHANGED <<mainst, pong>>

\* the channels whose notes are played: one of bank A, two of bank B
LifeCh == {0, 4, 5}

Life_ym_init == DoLife(Call("ym_init", 0, 0, 0, 0, 0, 0, 0))

Life_ym_on == \E ch \in LifeCh : DoLife(Call("ym_on", ch, 0, 0, 0, 0, 0, 0))

Life_ym_off == \E ch \in LifeCh : DoLife(Call("ym_off", ch, 0, 0, 0, 0, 0, 0))

Life_ym_freq ==
    \E a \in {b \in SeqFreqArgs : b[1] \in LifeCh} : DoLife(Call("ym_freq", a[1], 0, 0, 0, a[2], a[3], 0))

Life_ym_op == \E a \in SeqOpArgs : DoLife(Call("ym_op", a[1], a[2], a[3], a[4], 0, 0, 0))

Life_ym_patch_test == \E ch \in SeqPatchCh : DoLife(Call("ym_patch_test", ch, 0, 0, 0, 0, 0, 0))

Life_ym_load_patch == \E ch \in SeqPatchCh : DoLife(Call("ym_load_patch", ch, 0, 0, 0, 0, 0, 1))

\* the envelope of a released note completes, in chip time
Life_release ==
    /\ \E ch \in Channels :
           /\ life[ch] = "RELEASING"
           /\ life' = [life EXCEPT ![ch] = "IDLE"]
    /\ UNCHANGED <<pc, call, trace, writes, chip, n, phase, pos, delay_i, mainst, pong>>

NextLife ==
    \/ Life_ym_init
    \/ Life_ym_on
    \/ Life_ym_off
    \/ Life_ym_freq
    \/ Life_ym_op
    \/ Life_ym_patch_test
    \/ Life_ym_load_patch
    \/ Life_release

LifeSpec == Init /\ [][NextLife]_vars

----------------------------------------------------------------------------
(* Specification of the ports shared with a second agent (the sound        *)
(* coprocessor): between two complete operations of the core the agent may *)
(* store to any FM port; the core itself runs each operation undisturbed   *)

\* what the agent stores: a register index to the address port of either
\* bank (0x2A, the DAC data register), a data byte to either data port
AgentStores ==
    { Store(YM_ADDR_PORT0, 42), Store(YM_DATA_PORT0, 128),
      Store(YM_ADDR_PORT1, 42), Store(YM_DATA_PORT1, 128) }

Agent_store ==
    /\ n < MaxAgentSteps
    /\ \E e \in AgentStores :
           /\ call' = Call("agent", 0, 0, e.port, e.val, 0, 0, 0)
           /\ trace' = <<e>>
           /\ writes' = WriteOf(chip, e)
           /\ chip' = ChipStep(chip, e)
    /\ n' = n + 1
    /\ pc' = "done"
    /\ UNCHANGED <<phase, pos, delay_i, life, mainst, pong>>

Core_ym_freq ==
    n < MaxAgentSteps /\ \E a \in SeqFreqArgs : Do(Call("ym_freq", a[1], 0, 0, 0, a[2], a[3], 0))

Core_ym_on == n < MaxAgentSteps /\ \E ch \in LifeCh : Do(Call("ym_on", ch, 0, 0, 0, 0, 0, 0))

Core_ym_off == n < MaxAgentSteps /\ \E ch \in LifeCh : Do(Call("ym_off", ch, 0, 0, 0, 0, 0, 0))

Core_ym_op ==
    n < MaxAgentSteps /\ \E a \in SeqOpArgs : Do(Call("ym_op", a[1], a[2], a[3], a[4], 0, 0, 0))

Core_ym_patch_test ==
    n < MaxAgentSteps /\ \E ch \in SeqPatchCh : Do(Call("ym_patch_test", ch, 0, 0, 0, 0, 0, 0))

Core_ym_init == n < MaxAgentSteps /\ Do(Call("ym_init", 0, 0, 0, 0, 0, 0, 0))

Core_all_off == n < MaxAgentSteps /\ Do(Call("all_off", 0, 0, 0, 0, 0, 0, 0))

NextAgent ==
    \/ Agent_store
    \/ Core_ym_freq
    \/ Core_ym_on
    \/ Core_ym_off
    \/ Core_ym_op
    \/ Core_ym_patch_test
    \/ Core_ym_init
    \/ Core_all_off

AgentSpec == Init /\ [][NextAgent]_vars

----------------------------------------------------------------------------
(* Specification of the channel test: main() runs ym_init and then its     *)
(* loop for ever, one call per step; the PSG follows the bytes it is sent  *)

\* the PSG takes a byte: a latch byte of type volume (bit 7 and bit 4 set)
\* sets the attenuation of the channel in bits 6-5 to bits 3-0
PsgWrite(psg, byte) ==
    IF byte >= 128 /\ (byte \div 16) % 2 = 1
    THEN [psg EXCEPT ![(byte \div 32) % 4] = byte % 16]
    ELSE psg

PsgStep(psg, e) ==
    IF e.k = "store" /\ e.port = PSG_PORT THEN PsgWrite(psg, e.val) ELSE psg

\* the PSG consumes tr[lo..hi] in order (the first half is evaluated to a
\* value before the second half starts from it)
RECURSIVE PsgRun(_, _, _, _)
PsgRun(psg, tr, lo, hi) ==
    IF lo > hi THEN psg
    ELSE IF lo = hi THEN PsgStep(psg, tr[lo])
    ELSE CHOOSE r \in { PsgRun(m, tr, (lo + hi) \div 2 + 1, hi) :
                             m \in {PsgRun(psg, tr, lo, (lo + hi) \div 2)} } : TRUE

\* the calls of one pass through the loop body after all_off and
\* wait_short, as the tests on *step select them
IterCalls(step) ==
    LET F(ch, b, f) == Call("ym_freq", ch, 0, 0, 0, b, f, 0)
        On(ch)      == Call("ym_on", ch, 0, 0, 0, 0, 0, 0)
        T(ch, d)    == Call("psg_tone", ch, 0, 0, d, 0, 0, 0)
        V(ch, v)    == Call("psg_vol", ch, 0, 0, v, 0, 0, 0)
        N(m)        == Call("psg_noise", 0, 0, 0, m, 0, 0, 0)
        WL          == Call("wait_long", 0, 0, 0, 0, 0, 0, 0)
    IN  (IF step < 1 THEN <<F(0, 4, 644), On(0), WL>> ELSE <<>>)
        \o (IF step > 0 /\ step < 2 THEN <<F(1, 4, 723), On(1), WL>> ELSE <<>>)
        \o (IF step > 1 /\ step < 3 THEN <<F(2, 4, 811), On(2), WL>> ELSE <<>>)
        \o (IF step > 2 /\ step < 4 THEN <<F(3, 4, 859), On(3), WL>> ELSE <<>>)
        \o (IF step > 3 /\ step < 5 THEN <<F(4, 4, 964), On(4), WL>> ELSE <<>>)
        \o (IF step > 4 /\ step < 6 THEN <<F(5, 4, 1081), On(5), WL>> ELSE <<>>)
        \o (IF step > 5 /\ step < 7 THEN <<T(0, 170), V(0, 0), WL>> ELSE <<>>)
        \o (IF step > 6 /\ step < 8 THEN <<T(1, 127), V(1, 0), WL>> ELSE <<>>)
        \o (IF step > 7 /\ step < 9 THEN <<T(2, 113), V(2, 0), WL>> ELSE <<>>)
        \o (IF step > 8 /\ step < 10 THEN <<N(6), V(3, 0), WL>> ELSE <<>>)
        \o (IF step > 9
            THEN <<F(0, 4, 811), F(1, 4, 1021), F(2, 4, 1214),
                   F(3, 3, 811), F(4, 3, 1021), F(5, 3, 1214),
                   On(0), On(1), On(2), On(3), On(4), On(5),
                   T(0, 127), T(1, 101), T(2, 85),
                   V(0, 4), V(1, 4), V(2, 4), WL, WL>>
            ELSE <<>>)

\* faulty variant: the step counter is not reset after the all-channels step
main_step_stuck(step) == IF step > 9 THEN step ELSE step + 1

\* if (*step > 9) { ... *step = 0; goto mainloop; }  *step = *step + 1;
main_next_step(step) == IF step > 9 THEN 0 ELSE step + 1

\* call c runs: the FM chip and the PSG consume its port stores; m is the
\* state of main() after it, the PSG apart
MainDo(c, m) ==
    \E tr \in {Body(c)} :
        \E res \in {ChipRun([chip |-> chip, log |-> <<>>], tr, 1, Len(tr))} :
            /\ call' = c
            /\ trace' = tr
            /\ writes' = res.log
            /\ chip' = res.chip
            /\ mainst' = [m EXCEPT !.psg = PsgRun(mainst.psg, tr, 1, Len(tr))]
            /\ phase' = NextPhase(c)
            /\ UNCHANGED <<pc, n, pos, delay_i, life, pong>>

InitMain ==
    /\ pc = "ready"
    /\ call = NoCall
    /\ trace = <<>>
    /\ writes = <<>>
    /\ chip = PowerOn
    /\ n = 0
    /\ phase = "none"
    /\ pos = 0
    /\ delay_i = 0
    /\ life = IdleAll
    /\ mainst = [pc |-> "start", step |-> 0, k |-> 0, psg |-> [c \in 0 .. 3 |-> 15],
                 hist |-> <<>>, waited |-> 0]
    /\ pong = NoPong

\* ym_init(); step = (int *)0xFF0010; *step = 0;
Main_ym_init ==
    /\ mainst.pc = "start"
    /\ MainDo(Call("ym_init", 0, 0, 0, 0, 0, 0, 0),
              [mainst EXCEPT !.pc = "mainloop", !.step = 0])

\* mainloop: all_off();
Main_all_off ==
    /\ mainst.pc = "mainloop"
    /\ MainDo(Call("all_off", 0, 0, 0, 0, 0, 0, 0),
              [mainst EXCEPT !.pc = "wait", !.k = 0,
                             !.hist = <<Call("all_off", 0, 0, 0, 0, 0, 0, 0)>>])

\* wait_short();
Main_wait_short ==
    /\ mainst.pc = "wait"
    /\ mainst' = [mainst EXCEPT !.pc = "body", !.waited = wait_loop(20000)]
    /\ UNCHANGED <<pc, call, trace, writes, chip, n, phase, pos, delay_i, life, pong>>

\* the next call of the loop body is ym_freq or ym_on
Main_fm ==
    /\ mainst.pc = "body"
    /\ mainst.k < Len(IterCalls(mainst.step))
    /\ \E c \in {IterCalls(mainst.step)[mainst.k + 1]} :
           /\ c.fn \in {"ym_freq", "ym_on"}
           /\ MainDo(c, [mainst EXCEPT !.k = @ + 1, !.hist = Append(@, c)])

\* the next call of the loop body is psg_tone, psg_noise or psg_vol
Main_psg ==
    /\ mainst.pc = "body"
    /\ mainst.k < Len(IterCalls(mainst.step))
    /\ \E c \in {IterCalls(mainst.step)[mainst.k + 1]} :
           /\ c.fn \in {"psg_tone", "psg_noise", "psg_vol"}
           /\ MainDo(c, [mainst EXCEPT !.k = @ + 1, !.hist = Append(@, c)])

\* the next call of the loop body is wait_long
Main_wait_long ==
    /\ mainst.pc = "body"
    /\ mainst.k < Len(IterCalls(mainst.step))
    /\ \E c \in {IterCalls(mainst.step)[mainst.k + 1]} :
           /\ c.fn = "wait_long"
           /\ mainst' = [mainst EXCEPT !.k = @ + 1, !.hist = Append(@, c),
                                       !.waited = wait_loop(50000)]
    /\ UNCHANGED <<pc, call, trace, writes, chip, n, phase, pos, delay_i, life, pong>>

\* the end of the loop body: *step is advanced or reset; goto mainloop
Main_advance ==
    /\ mainst.pc = "body"
    /\ mainst.k = Len(IterCalls(mainst.step))
    /\ mainst' = [mainst EXCEPT !.pc = "mainloop", !.step = main_next_step(@)]
    /\ UNCHANGED <<pc, call, trace, writes, chip, n, phase, pos, delay_i, life, pong>>

NextMain ==
    \/ Main_ym_init
    \/ Main_all_off
    \/ Main_wait_short
    \/ Main_fm
    \/ Main_psg
    \/ Main_wait_long
    \/ Main_advance

MainSpec == InitMain /\ [][NextMain]_vars /\ WF_vars(NextMain)

----------------------------------------------------------------------------
(* Pong: the game state, the pad, the sound effects and one frame of the   *)
(* game loop                                                               *)

PADDLE_HEIGHT == 32
PADDLE_SPEED == 4
BALL_SIZE == 8
BALL_SPEED == 3
LEFT_MARGIN == 16
RIGHT_MARGIN == 304
TOP_MARGIN == 16
BOTTOM_MARGIN == 208

\* frames in which the player's input is free; afterwards the player keeps
\* the pad in the position chosen at the start of the game
MaxFree == 12

\* frames of the game loop that are explored
MaxFrames == 2500

\* polls of the pad in wait_for_start that are explored
MaxPolls == 6

\* faulty variant: button A (bit 4 of the second read) is reported in bit 7
read_controller_a_is_start(th1, th0) ==
    BitOr(BitAnd(th1, 63), BitOr(Shl(BitAnd(th0, 16), 2), Shl(BitAnd(th0, 16), 3)))

\* th1 is the byte the pad returns with TH high, th0 with TH low: bits 0-5
\* are Up, Down, Left, Right, B, C, bit 6 is A and bit 7 is Start, all 0
\* when pressed
read_controller(th1, th0) ==
    BitOr(BitAnd(th1, 63), BitOr(Shl(BitAnd(th0, 16), 2), Shl(BitAnd(th0, 32), 2)))

\* psg_write(0x90 | (channel << 5) | (volume & 0x0F)), the byte as the port
\* takes it
psg_set_volume(psg, channel, volume) ==
    PsgWrite(psg, Byte(BitOr(144, BitOr(Shl(channel, 5), BitAnd(volume, 15)))))

\* the two bytes of a tone: latch with the low four bits of the divider,
\* then its next six bits
psg_set_tone(psg, channel, freq) ==
    IF freq = 0 THEN psg
    ELSE LET d0 == 3579545 \div (32 * freq)
             divider == IF d0 > 1023 THEN 1023 ELSE d0
             byte1 == BitOr(128, BitOr(Shl(BitAnd(channel, 3), 5), BitAnd(divider, 15)))
             byte2 == BitAnd(Shr(divider, 4), 63)
         IN  PsgWrite(PsgWrite(psg, Byte(byte1)), Byte(byte2))

\* faulty variant: the noise channel is left as it is
psg_stop_three(psg) ==
    psg_set_volume(psg_set_volume(psg_set_volume(psg, 0, 15), 1, 15), 2, 15)

psg_stop(psg) ==
    psg_set_volume(psg_set_volume(psg_set_volume(psg_set_volume(psg, 0, 15), 1, 15), 2, 15), 3, 15)

psg_init(psg) ==
    psg_set_volume(psg_set_volume(psg_set_volume(psg_set_volume(psg, 0, 15), 1, 15), 2, 15), 3, 15)

sound_paddle_hit(g) ==
    [g EXCEPT !.psg = psg_set_volume(psg_set_tone(g.psg, 0, 880), 0, 2),
              !.sound_timer = 4]

sound_wall_bounce(g) ==
    [g EXCEPT !.psg = psg_set_volume(psg_set_tone(g.psg, 0, 440), 0, 4),
              !.sound_timer = 3]

sound_score(g) ==
    [g EXCEPT !.psg = psg_set_volume(psg_set_tone(g.psg, 0, 220), 0, 0),
              !.sound_timer = 15]

sound_update(g) ==
    IF g.sound_timer > 0
    THEN IF g.sound_timer - 1 = 0
         THEN [g EXCEPT !.sound_timer = 0, !.psg = psg_stop(g.psg)]
         ELSE [g EXCEPT !.sound_timer = g.sound_timer - 1]
    ELSE g

\* faulty variant: the ball is always served to the right
reset_ball_right(g) ==
    [g EXCEPT !.ball = [x |-> 156, y |-> 108, dx |-> BALL_SPEED, dy |-> 2]]

reset_ball(g) ==
    [g EXCEPT !.ball = [x |-> 156, y |-> 108,
                        dx |-> IF BitAnd(g.frame_count, 1) # 0
                               THEN BALL_SPEED ELSE 0 - BALL_SPEED,
                        dy |-> 2]]

\* faulty variant: a point is worth two
update_ball_two_points(g) ==
    LET move(a) == [a EXCEPT !.ball.x = a.ball.x + a.ball.dx,
                             !.ball.y = a.ball.y + a.ball.dy]
        score2(a) == IF a.ball.x < LEFT_MARGIN
                     THEN reset_ball(sound_score([a EXCEPT !.player2.score = @ + 2]))
                     ELSE a
        score1(a) == IF a.ball.x > RIGHT_MARGIN
                     THEN reset_ball(sound_score([a EXCEPT !.player1.score = @ + 2]))
                     ELSE a
    IN  CHOOSE r \in {score1(a) : a \in {score2(b) : b \in {move(g)}}} : TRUE

\* the statements of update_ball in order, each on the state the one before
\* it left
update_ball(g) ==
    LET paddle_width == 8
        move(a) == [a EXCEPT !.ball.x = a.ball.x + a.ball.dx,
                             !.ball.y = a.ball.y + a.ball.dy]
        top(a) == IF a.ball.y < TOP_MARGIN
                  THEN sound_wall_bounce([a EXCEPT !.ball.y = TOP_MARGIN,
                                                   !.ball.dy = 0 - a.ball.dy])
                  ELSE a
        bottom(a) == IF a.ball.y > BOTTOM_MARGIN - BALL_SIZE
                     THEN sound_wall_bounce([a EXCEPT !.ball.y = BOTTOM_MARGIN - BALL_SIZE,
                                                      !.ball.dy = 0 - a.ball.dy])
                     ELSE a
        hit1(a) == IF /\ a.ball.x < a.player1.x + paddle_width
                      /\ a.ball.x > a.player1.x - BALL_SIZE
                      /\ a.ball.y + BALL_SIZE > a.player1.y
                      /\ a.ball.y < a.player1.y + PADDLE_HEIGHT
                   THEN sound_paddle_hit([a EXCEPT !.ball.x = a.player1.x + paddle_width,
                                                   !.ball.dx = 0 - a.ball.dx])
                   ELSE a
        hit2(a) == IF /\ a.ball.x + BALL_SIZE > a.player2.x
                      /\ a.ball.x < a.player2.x + paddle_width
                      /\ a.ball.y + BALL_SIZE > a.player2.y
                      /\ a.ball.y < a.player2.y + PADDLE_HEIGHT
                   THEN sound_paddle_hit([a EXCEPT !.ball.x = a.player2.x - BALL_SIZE,
                                                   !.ball.dx = 0 - a.ball.dx])
                   ELSE a
        score2(a) == IF a.ball.x < LEFT_MARGIN
                     THEN reset_ball(sound_score([a EXCEPT !.player2.score = @ + 1]))
                     ELSE a
        score1(a) == IF a.ball.x > RIGHT_MARGIN
                     THEN reset_ball(sound_score([a EXCEPT !.player1.score = @ + 1]))
                     ELSE a
    IN  CHOOSE r \in
            {score1(a6) : a6 \in
            {score2(a5) : a5 \in
            {hit2(a4) : a4 \in
            {hit1(a3) : a3 \in
            {bottom(a2) : a2 \in
            {top(a1) : a1 \in {move(g)}}}}}}} : TRUE

\* faulty variant: player 1 is not clamped at the bottom
update_paddles_no_clamp(g, buttons) ==
    [g EXCEPT !.player1.y = IF BitAnd(buttons, 2) = 0 THEN @ + PADDLE_SPEED ELSE @]

update_paddles(g, buttons) ==
    LET clamp(y) == IF y < TOP_MARGIN THEN TOP_MARGIN
                    ELSE IF y > BOTTOM_MARGIN - PADDLE_HEIGHT
                         THEN BOTTOM_MARGIN - PADDLE_HEIGHT ELSE y
        up(y)   == IF BitAnd(buttons, 1) = 0 THEN y - PADDLE_SPEED ELSE y
        down(y) == IF BitAnd(buttons, 2) = 0 THEN y + PADDLE_SPEED ELSE y
        ai1(y)  == IF g.ball.x > 160 /\ y + 16 < g.ball.y THEN y + 3 ELSE y
        ai2(y)  == IF g.ball.x > 160 /\ y + 16 > g.ball.y THEN y - 3 ELSE y
    IN  [g EXCEPT !.player1.y = clamp(down(up(g.player1.y))),
                  !.player2.y = clamp(ai2(ai1(g.player2.y)))]

\* the statements after sound_update in the game loop: the score display
\* follows the scores, frame_count advances, the game stops at ten points
frame_end(g) ==
    [g EXCEPT !.last_p1_score = g.player1.score,
              !.last_p2_score = g.player2.score,
              !.frame_count = g.frame_count + 1,
              !.game_running = IF g.player1.score >= 10 \/ g.player2.score >= 10
                               THEN 0 ELSE g.game_running]

\* one pass through the body of while (game_running)
frame(g, buttons) ==
    CHOOSE r \in
        {frame_end(a3) : a3 \in
        {sound_update(a2) : a2 \in
        {update_ball(a1) : a1 \in {update_paddles(g, buttons)}}}} : TRUE

\* the bytes a pad returns with TH high: nothing, Up, Down, Up and Down
PadDirs == {127, 126, 125, 124}

\* the bytes a pad returns with TH low: bit 5 is Start, bit 4 is A
PadStart == {51, 19, 35, 3}

\* the game state as the initializers and psg_init leave it
PongPowerOn ==
    [player1 |-> [x |-> 16, y |-> 96, score |-> 0],
     player2 |-> [x |-> 296, y |-> 96, score |-> 0],
     ball |-> [x |-> 156, y |-> 108, dx |-> 3, dy |-> 2],
     game_running |-> 1,
     frame_count |-> 0,
     sound_timer |-> 0,
     last_p1_score |-> 0,
     last_p2_score |-> 0,
     psg |-> psg_init([c \in 0 .. 3 |-> 0])]

\* main() has returned from wait_for_start and is about to test
\* game_running for the first time; hold is what the pad returns once the
\* player stops changing it
InitPong ==
    /\ pc = "ready"
    /\ call = NoCall
    /\ trace = <<>>
    /\ writes = <<>>
    /\ chip = PowerOn
    /\ n = 0
    /\ phase = "none"
    /\ pos = 0
    /\ delay_i = 0
    /\ life = IdleAll
    /\ mainst = NoMain
    /\ \E h \in PadDirs :
           pong = PongPowerOn @@ [pc |-> "game", hold |-> h, buttons |-> 0]

\* while (game_running) { vdp_wait_vblank(); buttons = read_controller(); ... }
Pong_frame ==
    /\ pong.pc = "game"
    /\ pong.game_running # 0
    /\ pong.frame_count < MaxFrames
    /\ \E th1 \in (IF pong.frame_count < MaxFree THEN PadDirs ELSE {pong.hold}) :
           \E b \in {read_controller(th1, 51)} :
               pong' = frame([pong EXCEPT !.buttons = b], b)
    /\ UNCHANGED <<pc, call, trace, writes, chip, n, phase, pos, delay_i, life, mainst>>

\* game_running is 0: the loop is left
Pong_game_over ==
    /\ pong.pc = "game"
    /\ pong.game_running = 0
    /\ pong' = [pong EXCEPT !.pc = "gameover"]
    /\ UNCHANGED <<pc, call, trace, writes, chip, n, phase, pos, delay_i, life, mainst>>

\* while (1) { vdp_wait_vblank(); }
Pong_halt ==
    /\ pong.pc = "gameover"
    /\ UNCHANGED vars

NextPong ==
    \/ Pong_frame
    \/ Pong_game_over
    \/ Pong_halt

PongSpec == InitPong /\ [][NextPong]_vars /\ WF_vars(NextPong)

\* the game loop when the player leaves the pad as it is for the whole game
Sound_frame ==
    /\ pong.pc = "game"
    /\ pong.game_running # 0
    /\ pong.frame_count < MaxFrames
    /\ \E b \in {read_controller(pong.hold, 51)} :
           pong' = frame([pong EXCEPT !.buttons = b], b)
    /\ UNCHANGED <<pc, call, trace, writes, chip, n, phase, pos, delay_i, life, mainst>>

NextSound ==
    \/ Sound_frame
    \/ Pong_game_over
    \/ Pong_halt

SoundSpec == InitPong /\ [][NextSound]_vars /\ WF_vars(NextSound)

----------------------------------------------------------------------------
(* Pong from power-on to the game loop: wait_for_start polls the pad once   *)
(* per vblank                                                              *)

\* one call of read_controller with the pad returning th1 and th0: the
\* value is kept in buttons, and the poll is recorded with the level of the
\* Start line (bit 5 of th0, 1 = released) and bit 7 of the value
PollPad(g, th1, th0) ==
    [g EXCEPT !.buttons = read_controller(th1, th0),
              !.polls = Append(@, [start |-> BitAnd(th0, 32) \div 32,
                                   bit7 |-> BitAnd(read_controller(th1, th0), 128) \div 128])]

\* power-on: the initializers have run, the PSG has not been written, no
\* text is on the screen
InitStart ==
    /\ pc = "ready"
    /\ call = NoCall
    /\ trace = <<>>
    /\ writes = <<>>
    /\ chip = PowerOn
    /\ n = 0
    /\ phase = "none"
    /\ pos = 0
    /\ delay_i = 0
    /\ life = IdleAll
    /\ mainst = NoMain
    /\ pong = [PongPowerOn EXCEPT !.psg = [c \in 0 .. 3 |-> 0]]
                  @@ [pc |-> "power", text |-> FALSE, polls |-> <<>>, buttons |-> 0]

\* vdp_init() ... clear_sprite loop; wait_for_start draws its two texts
Start_setup ==
    /\ pong.pc = "power"
    /\ pong' = [pong EXCEPT !.psg = psg_init(pong.psg), !.text = TRUE, !.pc = "first_read"]
    /\ UNCHANGED <<pc, call, trace, writes, chip, n, phase, pos, delay_i, life, mainst>>

\* buttons = read_controller();
Start_first_read ==
    /\ pong.pc = "first_read"
    /\ \E th1 \in PadDirs, th0 \in PadStart :
           pong' = [PollPad(pong, th1, th0) EXCEPT !.pc = "release_loop"]
    /\ UNCHANGED <<pc, call, trace, writes, chip, n, phase, pos, delay_i, life, mainst>>

\* while (!(buttons & 0x80)) { vdp_wait_vblank(); buttons = read_controller(); }
Start_release_poll ==
    /\ pong.pc = "release_loop"
    /\ BitAnd(pong.buttons, 128) = 0
    /\ Len(pong.polls) < MaxPolls
    /\ \E th1 \in PadDirs, th0 \in PadStart : pong' = PollPad(pong, th1, th0)
    /\ UNCHANGED <<pc, call, trace, writes, chip, n, phase, pos, delay_i, life, mainst>>

\* the first loop is left: buttons & 0x80 is set
Start_released ==
    /\ pong.pc = "release_loop"
    /\ BitAnd(pong.buttons, 128) # 0
    /\ pong' = [pong EXCEPT !.pc = "press_loop"]
    /\ UNCHANGED <<pc, call, trace, writes, chip, n, phase, pos, delay_i, life, mainst>>

\* while (buttons & 0x80) { vdp_wait_vblank(); buttons = read_controller(); }
Start_press_poll ==
    /\ pong.pc = "press_loop"
    /\ BitAnd(pong.buttons, 128) # 0
    /\ Len(pong.polls) < MaxPolls
    /\ \E th1 \in PadDirs, th0 \in PadStart : pong' = PollPad(pong, th1, th0)
    /\ UNCHANGED <<pc, call, trace, writes, chip, n, phase, pos, delay_i, life, mainst>>

\* the second loop is left: clear_ready_screen(); main draws the playfield
\* and is about to enter the game loop
Start_pressed ==
    /\ pong.pc = "press_loop"
    /\ BitAnd(pong.buttons, 128) = 0
    /\ pong' = [pong EXCEPT !.text = FALSE, !.pc = "game",
                            !.last_p1_score = 0, !.last_p2_score = 0]
    /\ UNCHANGED <<pc, call, trace, writes, chip, n, phase, pos, delay_i, life, mainst>>

NextStart ==
    \/ Start_setup
    \/ Start_first_read
    \/ Start_release_poll
    \/ Start_released
    \/ Start_press_poll
    \/ Start_pressed

StartSpec == InitStart /\ [][NextStart]_vars

----------------------------------------------------------------------------
(* Properties *)

\* a register write as the chip sees it
W(bank, reg, val) == [bank |-> bank, reg |-> reg, val |-> val]

\* the bank a channel belongs to: A (0) for channels 0..2, B (1) for 3..5
ExpBank(ch) == IF ch < 3 THEN 0 ELSE 1

\* the key on/off code of a channel: ch mod 3, plus 4 on bank B
ExpKeyCode(ch) == (ch % 3) + (IF ch >= 3 THEN 4 ELSE 0)

\* the last call was fn and has returned
Done(fn) == pc = "done" /\ call.fn = fn

\* C1: for ch in 0..5, block in 0..7 and fnum in 0..2047, ym_freq emits
\* exactly two register writes, both to the bank of ch: 0xA4 + (ch mod 3)
\* with ((block & 7) << 3) | ((fnum >> 8) & 7), then 0xA0 + (ch mod 3) with
\* fnum & 0xFF; fnum = 2047 sets the three low bits of the high byte and
\* block = 7 sets bits 3..5.
C1_SetFreqWrites ==
    (Done("ym_freq") /\ call.ch \in 0 .. 5 /\ call.block \in 0 .. 7 /\ call.fnum \in 0 .. 2047)
    => /\ writes = << W(ExpBank(call.ch), 164 + (call.ch % 3),
                        call.block * 8 + (call.fnum \div 256)),
                      W(ExpBank(call.ch), 160 + (call.ch % 3), call.fnum % 256) >>
       /\ (call.fnum = 2047 => writes[1].val % 8 = 7)
       /\ (call.block = 7 => (writes[1].val \div 8) % 8 = 7)

\* ym_freq(4, 4, 1081) has returned: B:A5=24, B:A1=39
C1_Witness ==
    /\ Done("ym_freq") /\ call.ch = 4 /\ call.block = 4 /\ call.fnum = 1081
    /\ writes = << W(1, 165, 36), W(1, 161, 57) >>

\* C2: in every run, each write to a FREQ_LO register (0xA0 + local) is
\* immediately preceded, on the same bank, by the write to the FREQ_HI
\* register of the same channel (0xA4 + local); FREQ_LO is never the first
\* write of an operation.
C2_FreqHiBeforeLo ==
    \A i \in 1 .. Len(writes) :
        writes[i].reg \in 160 .. 162
        => /\ i > 1
           /\ writes[i - 1].bank = writes[i].bank
           /\ writes[i - 1].reg = writes[i].reg + 4

\* a frequency change on channel 5 (bank B) after one on channel 0 (bank A)
C2_Witness ==
    /\ Done("ym_freq") /\ call.ch = 5 /\ n >= 2
    /\ <<0, 160>> \in DOMAIN chip.reg
    /\ writes[2] = W(1, 162, 1081 % 256)

\* C3: for ch in 0..5, ym_on emits exactly one register write, to bank A
\* register 0x28, with value 0xF0 | (ch mod 3) | (4 if ch >= 3): one of F0,
\* F1, F2, F4, F5, F6, never the raw channel number and never on bank B.
C3_KeyOn ==
    (Done("ym_on") /\ call.ch \in 0 .. 5)
    => /\ writes = << W(0, 40, 240 + ExpKeyCode(call.ch)) >>
       /\ writes[1].val \in {240, 241, 242, 244, 245, 246}

\* ym_on(5) has returned: A:28=F6
C3_Witness == Done("ym_on") /\ call.ch = 5 /\ writes = << W(0, 40, 246) >>

\* the byte ym_on(ch) stores to the data port
KeyOnByte(ch) == ym_on(ch)[3].val

\* C4: for ch in 0..5, ym_off emits exactly one register write, to bank A
\* register 0x28, with value (ch mod 3) | (4 if ch >= 3) and a zero high
\* nibble; the bytes of ym_on(ch) and ym_off(ch) have equal low nibbles and
\* high nibbles that differ by 0xF0.
C4_KeyOff ==
    (Done("ym_off") /\ call.ch \in 0 .. 5)
    => /\ writes = << W(0, 40, ExpKeyCode(call.ch)) >>
       /\ writes[1].val \div 16 = 0
       /\ KeyOnByte(call.ch) % 16 = writes[1].val % 16
       /\ (KeyOnByte(call.ch) \div 16) * 16 - (writes[1].val \div 16) * 16 = 240

\* ym_off(5) has returned: A:28=06
C4_Witness == Done("ym_off") /\ call.ch = 5 /\ writes = << W(0, 40, 6) >>

\* the nine global writes of the initialisation
InitNine ==
    << W(0, 34, 0), W(0, 39, 0), W(0, 43, 0),
       W(0, 40, 0), W(0, 40, 1), W(0, 40, 2), W(0, 40, 4), W(0, 40, 5), W(0, 40, 6) >>

\* C5 as stated: ym_init emits exactly the nine writes 0x22, 0x27, 0x2B <- 0
\* and 0x28 <- 0, 1, 2, 4, 5, 6 on bank A, and no other FM register write.
C5_Original == Done("ym_init") => writes = InitNine

\* C5 amended: ym_init begins with exactly those nine writes, in that order,
\* all on bank A; it then loads the test patch on channels 0..5, eleven
\* writes each, none to a global register: 33 more on bank A, then 33 on
\* bank B, 75 FM register writes in all.
C5_InitWrites ==
    Done("ym_init")
    => /\ Len(writes) = 75
       /\ SubSeq(writes, 1, 9) = InitNine
       /\ \A i \in 10 .. 75 :
              /\ writes[i].reg >= 48
              /\ writes[i].bank = (IF i <= 42 THEN 0 ELSE 1)

\* ym_init has returned, the ninth write is the key-off of channel 5 and the
\* patch of channel 3 has reached bank B
C5_Witness ==
    /\ Done("ym_init") /\ Len(writes) = 75
    /\ writes[9] = W(0, 40, 6) /\ writes[43] = W(1, 176, 0)

\* C6: from the return of ym_init until the first key-on, all six channels
\* are keyed off (the last write to 0x28 naming each has high nibble 0) and
\* the LFO, timer control and DAC enable registers hold 0.
C6_QuietAfterInit ==
    phase = "quiet"
    => /\ \A ch \in Channels : chip.key[ch] = 0
       /\ \A r \in {34, 39, 43} : <<0, r>> \in DOMAIN chip.reg /\ chip.reg[<<0, r>>] = 0

\* two operations after ym_init, none of them a key-on
C6_Witness == phase = "quiet" /\ n = 3 /\ call.fn = "ym_freq"

\* C7 as stated: a patch load on channel ch emits exactly 30 register writes,
\* all to the bank of ch.
C7_Original ==
    (pc = "done" /\ call.fn \in {"ym_patch_test", "ym_load_patch"} /\ call.ch \in 0 .. 5)
    => /\ Len(writes) = 30
       /\ \A i \in 1 .. Len(writes) : writes[i].bank = ExpBank(call.ch)

\* C7 amended: loading a full patch record (ym_load_patch) emits exactly
\* 4*7 + 2 = 30 register writes; the test patch loader ym_patch_test emits
\* exactly 2 + 3 + 6 = 11; in both, every write goes to the bank of ch.
C7_PatchWrites ==
    (pc = "done" /\ call.fn \in {"ym_patch_test", "ym_load_patch"} /\ call.ch \in 0 .. 5)
    => /\ call.fn = "ym_load_patch" => Len(writes) = 30
       /\ call.fn = "ym_patch_test" => Len(writes) = 11
       /\ \A i \in 1 .. Len(writes) : writes[i].bank = ExpBank(call.ch)

\* the test patch has been loaded on channel 3, the first channel of bank B
C7_Witness ==
    Done("ym_patch_test") /\ call.ch = 3 /\ Len(writes) = 11 /\ writes[11].bank = 1

\* the operator offsets of the chip
ExpOpOffset == <<0, 8, 4, 12>>

\* the registers of a patch load in the order of the specification: the
\* seven groups of operators 0..3, then ALGO_FB, then STEREO_LFO
ExpPatchOrder(ch) ==
    [i \in 1 .. 30 |->
        IF i <= 28
        THEN OpBases[((i - 1) % 7) + 1] + (ch % 3) + ExpOpOffset[((i - 1) \div 7) + 1]
        ELSE IF i = 29 THEN 176 + (ch % 3) ELSE 180 + (ch % 3)]

\* C8 as stated: a patch load writes the seven registers of operators 0, 1,
\* 2, 3 in group order, then ALGO_FB, then STEREO_LFO.
C8_Original ==
    (pc = "done" /\ call.fn \in {"ym_patch_test", "ym_load_patch"} /\ call.ch \in 0 .. 5)
    => [i \in 1 .. Len(writes) |-> writes[i].reg] = ExpPatchOrder(call.ch)

\* C8 amended: ym_patch_test writes ALGO_FB, then STEREO_LFO, then TL of
\* operators 0, 1, 2, then DT_MUL, TL, RS_AR, AM_D1R, D2R, D1L_RR of
\* operator 3; both channel-level writes precede every operator write.
C8_PatchOrder ==
    (Done("ym_patch_test") /\ call.ch \in 0 .. 5)
    => [i \in 1 .. Len(writes) |-> <<writes[i].reg - (call.ch % 3), writes[i].val>>]
       = << <<176, 0>>, <<180, 192>>,
            <<64, 127>>, <<64 + 8, 127>>, <<64 + 4, 127>>,
            <<48 + 12, 1>>, <<64 + 12, 16>>, <<80 + 12, 31>>,
            <<96 + 12, 0>>, <<112 + 12, 0>>, <<128 + 12, 15>> >>

\* the test patch has been loaded on channel 4: B:B1 first, B:41 third
C8_Witness ==
    /\ Done("ym_patch_test") /\ call.ch = 4
    /\ writes[1] = W(1, 177, 0) /\ writes[3] = W(1, 65, 127)

\* C9: a patch load issues no write to register 0x28, and the key state of
\* every channel is the same after the load as before it.
C9_PatchNoKeyOn ==
    [][ call'.fn \in {"ym_patch_test", "ym_load_patch"}
        => /\ \A i \in 1 .. Len(writes') : writes'[i].reg # 40
           /\ chip'.key = chip.key ]_vars

\* the test patch has been loaded on a channel whose note is sounding
C9_Witness == Done("ym_patch_test") /\ chip.key[call.ch] = 15

\* C10: for ch in 0..5, op in 0..3, an operator group base and a byte value,
\* ym_op emits exactly one register write, to the bank of ch, at
\* base + (ch mod 3) + offset(op) with offset 0->0, 1->8, 2->4, 3->12.
C10_WriteOperator ==
    (Done("ym_op") /\ call.ch \in 0 .. 5 /\ call.op \in 0 .. 3 /\ call.val \in 0 .. 255)
    => writes = << W(ExpBank(call.ch),
                     call.reg + (call.ch % 3) + ExpOpOffset[call.op + 1], call.val) >>

\* ym_op(3, 2, 0x40, 0x10) has returned: B:44=10
C10_Witness ==
    /\ Done("ym_op") /\ call.ch = 3 /\ call.op = 2 /\ call.reg = 64 /\ call.val = 16
    /\ writes = << W(1, 68, 16) >>

\* the bank and register address ym_op selects: the first store of its trace
\* goes to the address port of the bank and carries the register index
OpTarget(ch, op, base) ==
    LET e == ym_op(ch, op, base, 0)[1]
    IN  <<IF e.port = YM_ADDR_PORT1 THEN 1 ELSE 0, e.val>>

\* C11: for ch in 0..5 and op in 0..3 the operator register address lies in
\* base .. base + 15, and within the operator group of base the 24 (ch, op)
\* pairs map to 24 pairwise distinct (bank, address) tuples.
C11_OperatorAddressing ==
    (Done("ym_op") /\ call.ch \in 0 .. 5 /\ call.op \in 0 .. 3)
    => /\ Len(writes) = 1
       /\ writes[1].reg \in call.reg .. call.reg + 15
       /\ OpTarget(call.ch, call.op, call.reg) = <<writes[1].bank, writes[1].reg>>
       /\ \A c2 \in 0 .. 5, o2 \in 0 .. 3 :
              <<c2, o2>> # <<call.ch, call.op>>
              => OpTarget(c2, o2, call.reg) # <<writes[1].bank, writes[1].reg>>
       /\ Cardinality({ OpTarget(c2, o2, call.reg) : c2 \in 0 .. 5, o2 \in 0 .. 3 }) = 24

\* ym_op(5, 3, 0x90, 0xFF) has returned: the last address of the group on
\* bank B, B:9E=FF
C11_Witness ==
    /\ Done("ym_op") /\ call.ch = 5 /\ call.op = 3 /\ call.reg = 144 /\ call.val = 255
    /\ writes = << W(1, 158, 255) >>

\* the channel the i-th register write of the last call configures: ym_init
\* loads the channels in order, 11 writes each, after its 9 global writes
WriteChannel(i) == IF call.fn = "ym_init" THEN (i - 10) \div 11 ELSE call.ch

\* C12: in every reachable state, every per-channel or per-operator register
\* write (0x30..0xB6) issued for channel ch went to bank A if ch <= 2 and to
\* bank B if ch >= 3, with in-bank index ch mod 3 in both cases, and every
\* global register write (0x22..0x2B, the key on/off of channels 3..5
\* included) went to bank A.
C12_BankRouting ==
    \A i \in 1 .. Len(writes) :
        /\ writes[i].reg \in (34 .. 43) \cup (48 .. 182)
        /\ writes[i].reg \in 34 .. 43 => writes[i].bank = 0
        /\ writes[i].reg \in 48 .. 182
           => /\ WriteChannel(i) \in Channels
              /\ writes[i].bank = ExpBank(WriteChannel(i))
              /\ writes[i].reg % 4 = WriteChannel(i) % 3

\* channel 4 was given its frequency on bank B (B:A5=23) and is now keyed
\* off on bank A (A:28=05)
C12_Witness ==
    /\ Done("ym_off") /\ call.ch = 4 /\ writes = << W(0, 40, 5) >>
    /\ <<1, 165>> \in DOMAIN chip.reg /\ chip.reg[<<1, 165>>] = 35

\* the bank of an FM port: 0 for A (0xA04000/1), 1 for B (0xA04002/3)
PortBank(p) == IF p \in {YM_ADDR_PORT0, YM_DATA_PORT0} THEN 0 ELSE 1

IsAddrStore(e) == e.k = "store" /\ e.port \in {YM_ADDR_PORT0, YM_ADDR_PORT1}

IsDataStore(e) == e.k = "store" /\ e.port \in {YM_DATA_PORT0, YM_DATA_PORT1}

\* C13: each bank write is exactly four steps in this order: the register
\* index stored to the bank's address port, the settle delay, the value
\* stored to the data port of the same bank, the settle delay again, with no
\* other port touched in between; so on each bank address stores and data
\* stores alternate, starting with an address store, and a data store always
\* has its own address store on that bank directly before it.
C13_WriteProtocol ==
    \A i \in 1 .. Len(trace) :
        /\ trace[i].k = "store"
           => trace[i].port \in {YM_ADDR_PORT0, YM_DATA_PORT0, YM_ADDR_PORT1,
                                 YM_DATA_PORT1, PSG_PORT}
        /\ IsAddrStore(trace[i])
           => /\ i + 3 <= Len(trace)
              /\ trace[i + 1].k = "delay"
              /\ IsDataStore(trace[i + 2])
              /\ PortBank(trace[i + 2].port) = PortBank(trace[i].port)
              /\ trace[i + 3].k = "delay"
        /\ IsDataStore(trace[i])
           => /\ i >= 3
              /\ IsAddrStore(trace[i - 2])
              /\ PortBank(trace[i - 2].port) = PortBank(trace[i].port)
              /\ trace[i - 1].k = "delay"
        /\ trace[i].k = "delay"
           => /\ i >= 2
              /\ IsAddrStore(trace[i - 1]) \/ IsDataStore(trace[i - 1])

\* ym_freq(4, 4, 964) has returned: two bank B writes, eight steps
C13_Witness ==
    /\ Done("ym_freq") /\ call.ch = 4 /\ call.block = 4 /\ call.fnum = 964
    /\ trace = << [k |-> "store", port |-> YM_ADDR_PORT1, val |-> 165],
                  [k |-> "delay", port |-> 0, val |-> 20],
                  [k |-> "store", port |-> YM_DATA_PORT1, val |-> 35],
                  [k |-> "delay", port |-> 0, val |-> 20],
                  [k |-> "store", port |-> YM_ADDR_PORT1, val |-> 161],
                  [k |-> "delay", port |-> 0, val |-> 20],
                  [k |-> "store", port |-> YM_DATA_PORT1, val |-> 196],
                  [k |-> "delay", port |-> 0, val |-> 20] >>

\* C14: the settle delay always terminates after a fixed number of
\* iterations: its counter starts at 0, is incremented once per iteration
\* and the loop exits when it reaches 20, whatever the chip or program
\* state; hence every public FM operation returns after a bounded number of
\* steps.
C14_DelayTerminates ==
    /\ [](delay_i \in 0 .. 20)
    /\ [](pc = "_d" => delay_i < 20)
    /\ []((pc = "run" /\ pos > 0 /\ trace[pos].k = "delay") => delay_i = 20)
    /\ [](pc = "done" => trace = Body(call))
    /\ <>(pc = "done")

\* ym_init has returned after its 75 bank writes and 4 PSG writes, the last
\* delay having counted to 20
C14_Witness ==
    /\ pc = "done" /\ call.fn = "ym_init" /\ pos = 304 /\ Len(writes) = 75
    /\ delay_i = 20

\* C15: ym_init is idempotent on the observable chip state (register
\* contents and per-channel key states): from any prior chip state, running
\* it a second time right after the first leaves the chip as the first run
\* left it.
C15_InitIdempotent ==
    [][(n = MaxPrior + 1 /\ call.fn = "ym_init")
       => /\ call' = call
          /\ chip'.reg = chip.reg
          /\ chip'.key = chip.key]_vars

\* ym_init has run twice in a row on a chip whose register A:30 an earlier
\* operator write had set to 01
C15_Witness ==
    /\ n = MaxPrior + 2 /\ Done("ym_init") /\ Len(writes) = 75
    /\ <<0, 48>> \in DOMAIN chip.reg /\ chip.reg[<<0, 48>>] = 1
    /\ \A c \in Channels : chip.key[c] = 0

\* C16: ym_off is idempotent: for every channel and every prior chip state,
\* ym_off(ch) followed by ym_off(ch) leaves the chip in the state one
\* ym_off(ch) leaves it in.
C16_KeyOffIdempotent ==
    [][(n = MaxPrior + 1 /\ call.fn = "ym_off")
       => /\ call' = call
          /\ chip'.reg = chip.reg
          /\ chip'.key = chip.key]_vars

\* channel 4 was keyed on, then keyed off twice in a row
C16_Witness ==
    /\ n = MaxPrior + 2 /\ Done("ym_off") /\ call.ch = 4
    /\ writes = << W(0, 40, 5) >> /\ chip.key[4] = 0
    /\ <<0, 40>> \in DOMAIN chip.reg /\ chip.reg[<<0, 40>>] = 5

\* C17 as stated: ym_freq(0, 4, 644) emits A:A4=24 then A:A0=84.
C17_Original ==
    (Done("ym_freq") /\ call.ch = 0 /\ call.block = 4 /\ call.fnum = 644)
    => writes = << W(0, 164, 36), W(0, 160, 132) >>

\* C17: ym_freq(0, 4, 644) emits bank A register 0xA4 <- 0x22 followed by
\* bank A register 0xA0 <- 0x84: 644 = 0x284, so (644 >> 8) & 7 = 2 and
\* (4 << 3) | 2 = 0x22, and 644 & 0xFF = 0x84.
C17_Freq644 ==
    (Done("ym_freq") /\ call.ch = 0 /\ call.block = 4 /\ call.fnum = 644)
    => /\ writes = << W(0, 164, 34), W(0, 160, 132) >>
       /\ chip.reg[<<0, 164>>] = 34
       /\ chip.reg[<<0, 160>>] = 132

\* ym_freq(0, 4, 644) has returned and FREQ_HI of channel 0 holds 0x22
C17_Witness ==
    /\ Done("ym_freq") /\ call.ch = 0 /\ call.block = 4 /\ call.fnum = 644
    /\ Len(writes) = 2 /\ writes[1].val = 34 /\ writes[2].val = 132

\* the call c with its arguments masked into range: channel onto 0..5,
\* operator onto 0..3, block onto 0..7, fnum onto 0..2047
InRange(c) ==
    \E ch \in 0 .. 5, o \in 0 .. 3 :
        /\ (c.ch \in 0 .. 5 => ch = c.ch)
        /\ (c.op \in 0 .. 3 => o = c.op)
        /\ trace = Body([c EXCEPT !.ch = ch, !.op = o,
                                  !.block = c.block % 8, !.fnum = c.fnum % 2048])

\* the (bank, register) pairs and the key on/off bytes that calls with all
\* arguments in range write
InRangeTargets ==
    { OpTarget(ch, o, OpBases[g]) : ch \in 0 .. 5, o \in 0 .. 3, g \in 1 .. 7 }
    \cup { <<ExpBank(ch), YM_REG_FREQ_HI + (ch % 3)>> : ch \in 0 .. 5 }
    \cup { <<ExpBank(ch), YM_REG_FREQ_LO + (ch % 3)>> : ch \in 0 .. 5 }
    \cup { <<0, YM_REG_KEY_ONOFF>> }

InRangeKeyBytes ==
    { ym_on(ch)[3].val : ch \in 0 .. 5 } \cup { ym_off(ch)[3].val : ch \in 0 .. 5 }

\* C18 as stated: a call of ym_freq, ym_on, ym_off or ym_op with an argument
\* out of range (channel above 5, operator above 3, block above 7, fnum above
\* 2047) returns having emitted the writes of the same operation with some
\* in-range argument, and no write of it targets a register address or
\* carries a key on/off channel code that no in-range call produces.
C18_Original ==
    (pc = "done" /\ call.fn \in {"ym_freq", "ym_on", "ym_off", "ym_op"})
    => /\ InRange(call)
       /\ \A i \in 1 .. Len(writes) :
              /\ <<writes[i].bank, writes[i].reg>> \in InRangeTargets
              /\ writes[i].reg = YM_REG_KEY_ONOFF => writes[i].val \in InRangeKeyBytes

\* C19: for all integers algo and feedback the algorithm/feedback byte is
\* ((feedback & 7) << 3) | (algo & 7): bits 0-2 carry the algorithm, bits
\* 3-5 the feedback, bits 6-7 are zero (0..63); it is written to
\* 0xB0 + (ch mod 3) on the bank of ch; (ch 2, algo 7, fb 0) gives A:B2=07
\* and (ch 3, algo 5, fb 7) gives B:B0=3D.
C19_AlgoFeedback ==
    (Done("ym_set_algo") /\ call.ch \in 0 .. 5)
    => /\ writes = << W(ExpBank(call.ch), 176 + (call.ch % 3),
                        (call.val % 8) * 8 + (call.op % 8)) >>
       /\ writes[1].val \in 0 .. 63
       /\ writes[1].val % 8 = call.op % 8
       /\ (writes[1].val \div 8) % 8 = call.val % 8
       /\ writes[1].val \div 64 = 0
       /\ (call.ch = 2 /\ call.op = 7 /\ call.val = 0) => writes = << W(0, 178, 7) >>
       /\ (call.ch = 3 /\ call.op = 5 /\ call.val = 7) => writes = << W(1, 176, 61) >>

\* ym_set_algo(3, 5, 7) has returned: B:B0=3D
C19_Witness ==
    /\ Done("ym_set_algo") /\ call.ch = 3 /\ call.op = 5 /\ call.val = 7
    /\ writes = << W(1, 176, 61) >> /\ chip.reg[<<1, 176>>] = 61

\* the STEREO_LFO register of a channel: 0xB4 + (ch mod 3) on the bank of ch
StereoReg(ch) == <<ExpBank(ch), YM_REG_STEREO_LFO + (ch % 3)>>

\* C20: after a patch load on channel ch, and so for all six channels once
\* ym_init has returned, the STEREO_LFO register of the channel holds 0xC0
\* (left and right enabled, AMS = 0, PMS = 0), and no later operation
\* changes it: in every state the register, once written, holds 0xC0.
C20_StereoDefault ==
    /\ \A ch \in Channels :
           StereoReg(ch) \in DOMAIN chip.reg => chip.reg[StereoReg(ch)] = 192
    /\ Done("ym_patch_test") => StereoReg(call.ch) \in DOMAIN chip.reg
    /\ phase # "none" => \A ch \in Channels : StereoReg(ch) \in DOMAIN chip.reg

\* ym_init, then a key-on, then a frequency write: all six STEREO_LFO
\* registers still hold 0xC0
C20_Witness ==
    /\ phase = "keyed" /\ n = 3 /\ Done("ym_freq")
    /\ \A ch \in Channels :
           StereoReg(ch) \in DOMAIN chip.reg /\ chip.reg[StereoReg(ch)] = 192

\* C21: with the lifecycle IDLE, SOUNDING, RELEASING of each channel,
\* ym_freq is enabled in all three states and, like ym_op and patch loading,
\* leaves the lifecycle state of every channel unchanged; ym_on(ch) and
\* ym_off(ch) change the state of channel ch only (to SOUNDING; from
\* SOUNDING to RELEASING) and leave the other five channels unchanged.
C21_LifecycleFrame ==
    [][/\ n < MaxLifeCalls => ENABLED Life_ym_freq
       /\ (n' = n + 1 /\ call'.fn \in {"ym_freq", "ym_op", "ym_patch_test", "ym_load_patch"})
          => life' = life
       /\ (n' = n + 1 /\ call'.fn \in {"ym_on", "ym_off"})
          => \A c \in Channels : c # call'.ch => life'[c] = life[c]
       /\ (n' = n + 1 /\ call'.fn = "ym_on") => life'[call'.ch] = "SOUNDING"
       /\ (n' = n + 1 /\ call'.fn = "ym_off")
          => life'[call'.ch] = IF life[call'.ch] = "SOUNDING" THEN "RELEASING"
                               ELSE life[call'.ch]]_vars

\* channel 4 was keyed on, keyed off and is given a new frequency while its
\* note is releasing
C21_Witness ==
    /\ Done("ym_freq") /\ call.ch = 4 /\ n = 3
    /\ life = [IdleAll EXCEPT ![4] = "RELEASING"]

\* the register write the k-th bank write of the last call asked for: the
\* bank and index of its address store, the byte of its data store
Asked(k) ==
    [bank |-> PortBank(trace[4 * k - 3].port), reg |-> trace[4 * k - 3].val,
     val |-> trace[4 * k - 1].val]

\* C22: the core does no bus arbitration of its own (it never accesses the
\* coprocessor's bus-request register) and relies on exclusive access: when
\* a second agent stores to the FM ports only between complete operations,
\* every core write lands in the register selected by its own address
\* store, each FREQ_HI/FREQ_LO pair stays adjacent, and the writes of the
\* single thread of control reach the chip in program order.
C22_ExclusiveAccess ==
    (pc = "done" /\ call.fn # "agent")
    => /\ \A i \in 1 .. Len(trace) : trace[i].port # Z80_BUS_REQ
       /\ 4 * Len(writes) <= Len(trace)
       /\ \A i \in 4 * Len(writes) + 1 .. Len(trace) : trace[i].port = PSG_PORT
       /\ \A k \in 1 .. Len(writes) :
              /\ writes[k] = Asked(k)
              /\ <<writes[k].bank, writes[k].reg>> \in DOMAIN chip.reg
       /\ chip.reg[<<writes[Len(writes)].bank, writes[Len(writes)].reg>>]
              = writes[Len(writes)].val
       /\ call.fn = "ym_freq"
          => /\ Len(writes) = 2
             /\ writes[1].reg = YM_REG_FREQ_HI + (call.ch % 3)
             /\ writes[2].reg = YM_REG_FREQ_LO + (call.ch % 3)
             /\ writes[2].bank = writes[1].bank

\* the agent stored 0x2A to address ports twice, bank A last seen on 0x2A;
\* ym_freq(3, 4, 859) then wrote B:A4=23 and B:A0=5B and nothing else
C22_Witness ==
    /\ Done("ym_freq") /\ call.ch = 3 /\ n = 3
    /\ writes = << W(1, 164, 35), W(1, 160, 91) >>
    /\ DOMAIN chip.reg = {<<1, 164>>, <<1, 160>>}
    /\ chip.lat[1] = 42

\* the FM part of all_off: ym_off(0), ym_off(1), ..., ym_off(5) in order
KeyOffAll ==
    ym_off(0) \o ym_off(1) \o ym_off(2) \o ym_off(3) \o ym_off(4) \o ym_off(5)

\* C23: the six literal key-off writes of ym_init (bank A, 0x28 <- 0x00,
\* 0x01, 0x02, 0x04, 0x05, 0x06) are exactly the bus writes of ym_off(0),
\* ..., ym_off(5) in that order, the FM part of all_off: same bank,
\* register, values and order.
C23_InitKeyOffs ==
    /\ Done("ym_init")
       => /\ SubSeq(trace, 13, 36) = KeyOffAll
          /\ SubSeq(trace, 13, 36) = SubSeq(all_off, 1, 24)
          /\ SubSeq(writes, 4, 9) = << W(0, 40, 0), W(0, 40, 1), W(0, 40, 2),
                                       W(0, 40, 4), W(0, 40, 5), W(0, 40, 6) >>
          /\ \A k \in 1 .. Len(writes) : writes[k].reg = YM_REG_KEY_ONOFF <=> k \in 4 .. 9
    /\ Done("all_off")
       => /\ SubSeq(trace, 1, 24) = KeyOffAll
          /\ writes = SubSeq(InitNine, 4, 9)

\* ym_init has returned; its fourth to ninth writes keyed off channels 0..5
C23_Witness ==
    /\ Done("ym_init") /\ Len(writes) = 75
    /\ \A c \in Channels : writes[4 + c] = W(0, 40, ExpKeyCode(c))
    /\ \A c \in Channels : chip.key[c] = 0

\* the sound channels that can be heard: the FM channels whose operators are
\* keyed on and the PSG channels whose attenuation is not 15
Sounding ==
    {<<"fm", c>> : c \in {d \in Channels : chip.key[d] # 0}}
        \cup {<<"psg", c>> : c \in {d \in 0 .. 3 : mainst.psg[d] # 15}}

\* the channel the iteration with step counter s plays
StepChannel(s) == IF s <= 5 THEN <<"fm", s>> ELSE <<"psg", s - 6>>

\* the calls of the current iteration so far that turn a channel on
TurnOns ==
    {i \in 1 .. Len(mainst.hist) :
        \/ mainst.hist[i].fn = "ym_on"
        \/ mainst.hist[i].fn = "psg_vol" /\ mainst.hist[i].val # 15}

\* C24 as stated: at no point while the step counter is at most 9 are two
\* channels keyed on or unmuted at the same time.  Violated between the
\* reset of the counter at the end of the all-channels step and the return
\* of the all_off that opens the next iteration.
C24_Original ==
    (mainst.pc \in {"mainloop", "wait", "body"} /\ mainst.step <= 9)
        => Cardinality(Sounding) <= 1

\* C24 (amended): in an iteration with step counter k in 0..9, from the
\* return of all_off to the end of the iteration, no channel but the one of
\* that step (FM k for k <= 5, PSG k - 6 for 6 <= k <= 9) sounds; exactly
\* one call of the iteration turns a channel on, and from that call to the
\* end of the iteration exactly that channel sounds.
C24_OneAtATime ==
    (mainst.pc \in {"wait", "body"} /\ mainst.step <= 9)
        => /\ Sounding \subseteq {StepChannel(mainst.step)}
           /\ Cardinality(TurnOns) <= 1
           /\ mainst.k >= 2 => /\ Sounding = {StepChannel(mainst.step)}
                               /\ Cardinality(TurnOns) = 1
           /\ mainst.k < 2 => Sounding = {}

\* the first step of a later pass has keyed channel 0 on and waits: channel 5
\* still holds the frequency of the all-channels step (block 3, 1214) and
\* is silent
C24_Witness ==
    /\ mainst.pc = "body"
    /\ mainst.step = 0
    /\ mainst.k = 3
    /\ <<1, 166>> \in DOMAIN chip.reg
    /\ chip.reg[<<1, 166>>] = 28
    /\ Sounding = {<<"fm", 0>>}

\* C25: the step counter is always in 0..10; it changes only at the end of
\* an iteration, by +1 or from 10 back to 0 after the all-channels step;
\* the loop never gets stuck (every wait loop exits and every step value
\* recurs for ever); each of the six FM channels is keyed on infinitely
\* often, stays on until the all_off that opens the following iteration,
\* and is keyed off by it.
C25_StepCycle ==
    /\ [](mainst.step \in 0 .. 10 /\ mainst.waited \in {0, 20000, 50000})
    /\ [][mainst'.step # mainst.step =>
            /\ mainst.pc = "body"
            /\ mainst.k = Len(IterCalls(mainst.step))
            /\ mainst'.pc = "mainloop"
            /\ mainst'.step = IF mainst.step = 10 THEN 0 ELSE mainst.step + 1]_vars
    /\ [][mainst.pc = "body" /\ mainst'.pc = "mainloop" =>
            mainst'.step # mainst.step]_vars
    /\ \A s \in 0 .. 10 : []<>(mainst.pc = "mainloop" /\ mainst.step = s)
    /\ \A c \in Channels :
          /\ []<>(chip.key[c] # 0)
          /\ (chip.key[c] # 0) ~> (mainst.pc = "wait" /\ chip.key[c] = 0)
    /\ [][\A c \in Channels :
            /\ chip.key[c] # 0 /\ chip'.key[c] = 0 =>
                    mainst.pc = "mainloop" /\ mainst'.pc = "wait"
            /\ mainst.pc = "mainloop" /\ mainst'.pc = "wait" =>
                    chip'.key[c] = 0]_vars

\* the counter has wrapped from 10 to 0 and the all_off of the following
\* iteration has keyed off the six channels the all-channels step keyed on
\* (channel 5 still holds that step's frequency, block 3 and 1214)
C25_Witness ==
    /\ mainst.pc = "wait"
    /\ mainst.step = 0
    /\ <<1, 166>> \in DOMAIN chip.reg
    /\ chip.reg[<<1, 166>>] = 28
    /\ \A c \in Channels : chip.key[c] = 0
    /\ mainst.waited = 50000

\* the register writes of the test patch on channel ch, as a chip at
\* power-on receives them
PatchWrites(ch) ==
    ChipRun([chip |-> PowerOn, log |-> <<>>], ym_patch_test(ch), 1,
            Len(ym_patch_test(ch))).log

\* the chip holds the test patch on channel ch
PatchLoaded(ch) ==
    \A i \in 1 .. Len(PatchWrites(ch)) :
        /\ <<PatchWrites(ch)[i].bank, PatchWrites(ch)[i].reg>> \in DOMAIN chip.reg
        /\ chip.reg[<<PatchWrites(ch)[i].bank, PatchWrites(ch)[i].reg>>]
               = PatchWrites(ch)[i].val

\* the i-th call of the current iteration is a key-on that an earlier
\* ym_freq on the same channel prepared, nothing keying the channel off in
\* between
FreqBefore(i) ==
    \E j \in 1 .. i - 1 :
        /\ mainst.hist[j].fn = "ym_freq"
        /\ mainst.hist[j].ch = mainst.hist[i].ch
        /\ \A m \in j + 1 .. i - 1 :
               /\ mainst.hist[m].fn \notin {"all_off", "ym_init"}
               /\ ~(mainst.hist[m].fn = "ym_off" /\ mainst.hist[m].ch = mainst.hist[i].ch)

\* C26: no FM channel is keyed on before it is prepared: no channel is keyed
\* on before ym_init has returned; a keyed-on channel holds the test patch
\* ym_init loaded on it and was keyed on by a ym_on of the current
\* iteration; and every ym_on of channel ch is preceded within the same
\* iteration by a ym_freq on ch with no key-off of ch in between.
C26_PreparedBeforeKeyOn ==
    /\ mainst.pc = "start" => \A ch \in Channels : chip.key[ch] = 0
    /\ \A ch \in Channels :
           chip.key[ch] # 0
               => /\ PatchLoaded(ch)
                  /\ mainst.pc # "start"
                  /\ mainst.pc = "body"
                         => \E i \in 1 .. Len(mainst.hist) :
                                mainst.hist[i].fn = "ym_on" /\ mainst.hist[i].ch = ch
    /\ \A i \in 1 .. Len(mainst.hist) :
           mainst.hist[i].fn = "ym_on"
               => /\ mainst.hist[i].ch \in Channels
                  /\ PatchLoaded(mainst.hist[i].ch)
                  /\ FreqBefore(i)

\* the all-channels step has just keyed on channel 5, the last of its six
\* key-ons, after the six ym_freq calls that open the step
C26_Witness ==
    /\ mainst.pc = "body"
    /\ mainst.step = 10
    /\ mainst.k = 12
    /\ call.fn = "ym_on" /\ call.ch = 5
    /\ \A ch \in Channels : chip.key[ch] = 15 /\ PatchLoaded(ch)
    /\ mainst.hist[7].fn = "ym_freq" /\ mainst.hist[7].ch = 5

\* C27: at every render of Pong (every frame, after update_paddles and
\* update_ball, whatever the pad returned) both paddles have 16 <= y <= 176,
\* the ball has 16 <= x <= 304 and 16 <= y <= 200, |dx| = 3 and |dy| = 2.
C27_RenderBounds ==
    pong.frame_count > 0
        => /\ pong.player1.y >= TOP_MARGIN
           /\ pong.player1.y <= BOTTOM_MARGIN - PADDLE_HEIGHT
           /\ pong.player2.y >= TOP_MARGIN
           /\ pong.player2.y <= BOTTOM_MARGIN - PADDLE_HEIGHT
           /\ pong.ball.x >= LEFT_MARGIN
           /\ pong.ball.x <= RIGHT_MARGIN
           /\ pong.ball.y >= TOP_MARGIN
           /\ pong.ball.y <= BOTTOM_MARGIN - BALL_SIZE
           /\ pong.ball.dx \in {BALL_SPEED, 0 - BALL_SPEED}
           /\ pong.ball.dy \in {2, -2}

\* Down is held, player 1 is clamped at 176 and the ball has just been
\* clamped at the bottom wall
C27_Witness ==
    /\ pong.pc = "game"
    /\ pong.frame_count > 0
    /\ pong.buttons = 253
    /\ pong.player1.y = 176
    /\ pong.ball.y = 200
    /\ pong.ball.dy = -2

\* the game state of Pong: everything but the place in main() and the pad
GameState(g) ==
    <<g.player1, g.player2, g.ball, g.game_running, g.frame_count,
      g.sound_timer, g.last_p1_score, g.last_p2_score, g.psg>>

\* C28: the scores never decrease and grow by at most one point in total per
\* frame; no score exceeds 10; game_running changes only from 1 to 0, at the
\* end of the first frame in which a score reaches 10; the game-over loop
\* is entered with exactly one player at 10; after game over no game state
\* changes.
C28_Scoring ==
    [][/\ pong'.player1.score >= pong.player1.score
       /\ pong'.player2.score >= pong.player2.score
       /\ (pong'.player1.score + pong'.player2.score)
              - (pong.player1.score + pong.player2.score) <= 1
       /\ pong'.player1.score <= 10 /\ pong'.player2.score <= 10
       /\ pong'.game_running # pong.game_running
              => /\ pong.game_running = 1 /\ pong'.game_running = 0
                 /\ pong.player1.score < 10 /\ pong.player2.score < 10
                 /\ pong'.player1.score = 10 \/ pong'.player2.score = 10
                 /\ pong'.frame_count = pong.frame_count + 1
       /\ (pong'.player1.score = 10 \/ pong'.player2.score = 10)
              => pong'.game_running = 0
       /\ pong'.pc = "gameover"
              => /\ (pong'.player1.score = 10) # (pong'.player2.score = 10)
                 /\ GameState(pong') = GameState(pong)
       /\ pong.pc = "gameover" => pong'.pc = "gameover"]_vars

\* the game is over: player 2 has won 10 to 0 and main() is in its last loop
C28_Witness ==
    /\ pong.pc = "gameover"
    /\ pong.game_running = 0
    /\ pong.player2.score = 10
    /\ pong.player1.score = 0
    /\ pong.last_p2_score = 10

\* all four PSG channels are at volume 15, as psg_stop leaves them
PsgSilent == \A c \in 0 .. 3 : pong.psg[c] = 15

\* a sound effect is running whose count-down ends within the frames that
\* are explored
SoundStarted ==
    pong.sound_timer > 0 /\ pong.frame_count + pong.sound_timer <= MaxFrames

\* C29 as stated: every sound effect that is started is eventually followed
\* by psg_stop setting all four PSG channels to volume 15.  Violated by the
\* score sound of the last point: the frame that starts it also ends the
\* game loop, sound_update is never called again, and channel 0 stays at
\* full volume with sound_timer = 14 for ever.
C29_Original == SoundStarted ~> PsgSilent

\* C30: the game loop of Pong does not start until, at the polls of
\* wait_for_start, START has been observed released (bit 7 of
\* read_controller = 1) and afterwards observed pressed (bit 7 = 0), bit 7
\* being the level of the pad's Start line at every poll; a START held since
\* power-on does not start the game; the READY / PUSH START text stays on
\* the screen from wait_for_start's entry until that press and is cleared
\* only after it; the game state is untouched until then.
C30_StartGate ==
    /\ \A i \in 1 .. Len(pong.polls) : pong.polls[i].bit7 = pong.polls[i].start
    /\ pong.pc = "game"
           => /\ \E i \in 1 .. Len(pong.polls) :
                     /\ pong.polls[i].bit7 = 1
                     /\ i < Len(pong.polls)
              /\ pong.polls[Len(pong.polls)].bit7 = 0
              /\ pong.polls[Len(pong.polls)].start = 0
    /\ (\A i \in 1 .. Len(pong.polls) : pong.polls[i].start = 0) => pong.pc # "game"
    /\ pong.text = (pong.pc \in {"first_read", "release_loop", "press_loop"})
    /\ GameState(pong) = GameState([PongPowerOn EXCEPT !.psg = pong.psg])

\* START was held at power-on for two polls, then released for two polls,
\* then pressed: the text is cleared and the game loop is about to start
C30_Witness ==
    /\ pong.pc = "game"
    /\ pong.text = FALSE
    /\ Len(pong.polls) = 5
    /\ pong.polls[1].start = 0 /\ pong.polls[2].start = 0
    /\ pong.polls[3].start = 1 /\ pong.polls[4].start = 1
    /\ pong.polls[5].start = 0
    /\ PsgSilent

====
